---- MODULE Spec2Model ----
(***************************************************************************)
(* The news collection scripts of realestate-dash:                         *)
(*   workflow/collect_apartment_news.py  (per-apartment pipeline + batch)  *)
(*   workflow/collect_news.py            (per-region batch)                *)
(*                                                                         *)
(* Text is a sequence of one-character strings.  A relevance score is an   *)
(* integer number of hundredths (0.6 is 60): decimal literals of at most   *)
(* two places compare as Python floats exactly as their hundredths do.     *)
(* The one place where float rounding decides a result, the mean behind    *)
(* the tier, is computed in IEEE-754 binary64 (see FloatAdd, FloatDiv).    *)
(***************************************************************************)
EXTENDS Integers, Sequences, FiniteSets, TLC

(***************************************************************************)
(* Bounds of the model.                                                    *)
(***************************************************************************)
\* most items the search provider returns to one pipeline call (Spec)
MaxItems == 2
\* most items the search provider returns per call inside a batch run
BatchItems == 1
\* how many entries of TARGET_APARTMENTS / TARGET_REGIONS a batch iterates
NumApartments == 2
NumRegions == 2
\* most pieces a raw text given to a normaliser is made of
MaxChunks == 3
\* most items the provider returns per request during a run of collect_news
NewsItems == 2
\* most items the provider returns to a keyword-mode pipeline call (SpecTier)
TierItems == 3

(***************************************************************************)
(* Text helpers: Python's str operations on character sequences.           *)
(***************************************************************************)
RECURSIVE IndexFrom(_, _, _)
\* least j >= i with s[j] = c, or 0 when there is none
IndexFrom(s, c, i) ==
    IF i > Len(s) THEN 0
    ELSE IF s[i] = c THEN i
    ELSE IndexFrom(s, c, i + 1)

\* s[i .. i+Len(sub)-1] = sub
MatchAt(s, sub, i) ==
    /\ i + Len(sub) - 1 <= Len(s)
    /\ \A k \in 1..Len(sub) : s[i + k - 1] = sub[k]

\* Python: sub in s
Contains(s, sub) == \E i \in 1..(Len(s) + 1) : MatchAt(s, sub, i)

\* Python: any(kw in s for kw in kws)
AnyIn(kws, s) == \E k \in 1..Len(kws) : Contains(s, kws[k])

RECURSIVE ReplaceFrom(_, _, _, _)
ReplaceFrom(s, old, new, i) ==
    IF i > Len(s) THEN <<>>
    ELSE IF MatchAt(s, old, i) THEN new \o ReplaceFrom(s, old, new, i + Len(old))
    ELSE <<s[i]>> \o ReplaceFrom(s, old, new, i + 1)

\* Python: s.replace(old, new), old non-empty
Replace(s, old, new) == ReplaceFrom(s, old, new, 1)

Whitespace == {" ", "\t", "\n"}

RECURSIVE LStrip(_)
LStrip(s) == IF s # <<>> /\ Head(s) \in Whitespace THEN LStrip(Tail(s)) ELSE s

RECURSIVE RStrip(_)
RStrip(s) ==
    IF s # <<>> /\ s[Len(s)] \in Whitespace THEN RStrip(SubSeq(s, 1, Len(s) - 1)) ELSE s

\* Python: s.strip()
Strip(s) == RStrip(LStrip(s))

UpperCase == <<"A","B","C","D","E","F","G","H","I","J","K","L","M",
               "N","O","P","Q","R","S","T","U","V","W","X","Y","Z">>
LowerCase == <<"a","b","c","d","e","f","g","h","i","j","k","l","m",
               "n","o","p","q","r","s","t","u","v","w","x","y","z">>

LowerChar(c) ==
    IF \E k \in 1..Len(UpperCase) : UpperCase[k] = c
    THEN LowerCase[CHOOSE k \in 1..Len(UpperCase) : UpperCase[k] = c]
    ELSE c

RECURSIVE Lower(_)
\* Python: s.lower() (Hangul has no case)
Lower(s) == IF s = <<>> THEN <<>> ELSE <<LowerChar(Head(s))>> \o Lower(Tail(s))

RECURSIVE SubDelimited(_, _, _, _, _)
\* re.sub of a pattern  open [^close]+ close : each leftmost match, whose body
\* is the non-empty run up to the first `close` after `open`, becomes
\* left \o body \o right.
SubDelimited(s, open, close, keep, i) ==
    IF i > Len(s) THEN <<>>
    ELSE LET j == IndexFrom(s, close, i + 1) IN
         IF s[i] = open /\ j >= i + 2
         THEN (IF keep THEN <<"'">> \o SubSeq(s, i + 1, j - 1) \o <<"'">> ELSE <<>>)
              \o SubDelimited(s, open, close, keep, j + 1)
         ELSE <<s[i]>> \o SubDelimited(s, open, close, keep, i + 1)

AMP == <<"&">>
LT == <<"<">>
GT == <<">">>
DQ == <<"\"">>
SQ == <<"'">>
E_QUOT == <<"&","q","u","o","t",";">>
E_AMP == <<"&","a","m","p",";">>
E_LT == <<"&","l","t",";">>
E_GT == <<"&","g","t",";">>
E_APOS == <<"&","a","p","o","s",";">>

\* mutant of clean_html: a double quote outside a quoted span is left as is
clean_html_strayquote(text) ==
    LET c1 == SubDelimited(text, "<", ">", FALSE, 1)
        c2 == Replace(c1, E_QUOT, DQ)
        c3 == Replace(c2, E_AMP, AMP)
        c4 == Replace(c3, E_LT, LT)
        c5 == Replace(c4, E_GT, GT)
        c6 == Replace(c5, E_APOS, SQ)
        c7 == SubDelimited(c6, "\"", "\"", TRUE, 1)
    IN  Strip(c7)

\* collect_apartment_news.clean_html
clean_html(text) ==
    LET c1 == SubDelimited(text, "<", ">", FALSE, 1)
        c2 == Replace(c1, E_QUOT, DQ)
        c3 == Replace(c2, E_AMP, AMP)
        c4 == Replace(c3, E_LT, LT)
        c5 == Replace(c4, E_GT, GT)
        c6 == Replace(c5, E_APOS, SQ)
        c7 == SubDelimited(c6, "\"", "\"", TRUE, 1)
        c8 == Replace(c7, DQ, SQ)
    IN  Strip(c8)

(***************************************************************************)
(* IEEE-754 binary64 arithmetic for sum(...) / len(...).  A non-negative   *)
(* double below 32 that is a multiple of 2^-55 is held exactly as three    *)
(* base-2^20 limbs <<hi, mid, lo>> of its value in units of 2^-55.         *)
(***************************************************************************)
LimbBase == 2^20

\* the doubles nearest to the decimal literals of the source
F_0_2 == <<6553, 629145, 629146>>
F_0_5 == <<16384, 0, 0>>
F_0_7 == <<22937, 629145, 629144>>
F_0_85 == <<27852, 838860, 838860>>
F_0_9 == <<29491, 209715, 209716>>
F_ZERO == <<0, 0, 0>>

\* spacing of the doubles around v, in units of 2^-55
Ulp(v) ==
    IF v[1] < 2^13 THEN 1
    ELSE IF v[1] < 2^14 THEN 2
    ELSE IF v[1] < 2^15 THEN 4
    ELSE IF v[1] < 2^16 THEN 8
    ELSE IF v[1] < 2^17 THEN 16
    ELSE IF v[1] < 2^18 THEN 32
    ELSE 64

LimbNorm(hi, mid, lo) ==
    LET c0 == lo \div LimbBase
        m1 == mid + c0
        c1 == m1 \div LimbBase
    IN  <<hi + c1, m1 % LimbBase, lo % LimbBase>>

\* round-half-even of the exact value v + num/den (0 <= num < den) to a double
RoundNearestEven(v, num, den) ==
    LET g == Ulp(v)
        r == v[3] % g
        down == <<v[1], v[2], v[3] - r>>
        twice == 2 * (r * den + num)
        odd == ((v[3] - r) \div g) % 2 = 1
        up == twice > g * den \/ (twice = g * den /\ odd)
    IN  IF up THEN LimbNorm(down[1], down[2], down[3] + g) ELSE down

\* a + b on doubles
FloatAdd(a, b) ==
    RoundNearestEven(LimbNorm(a[1] + b[1], a[2] + b[2], a[3] + b[3]), 0, 1)

\* a / n on doubles, n a small positive integer
FloatDiv(a, n) ==
    LET q1 == a[1] \div n
        t2 == (a[1] % n) * LimbBase + a[2]
        q2 == t2 \div n
        t3 == (t2 % n) * LimbBase + a[3]
        q3 == t3 \div n
    IN  RoundNearestEven(<<q1, q2, q3>>, t3 % n, n)

\* a >= b on doubles
FloatGe(a, b) ==
    \/ a[1] > b[1]
    \/ a[1] = b[1] /\ a[2] > b[2]
    \/ a[1] = b[1] /\ a[2] = b[2] /\ a[3] >= b[3]

RECURSIVE FloatSum(_)
\* Python: sum(xs), left to right from 0
FloatSum(xs) ==
    IF xs = <<>> THEN F_ZERO
    ELSE FloatAdd(FloatSum(SubSeq(xs, 1, Len(xs) - 1)), xs[Len(xs)])

(***************************************************************************)
(* Configuration of collect_apartment_news.py.  A Hangul syllable is one   *)
(* character, written as its romanisation after an underscore.             *)
(***************************************************************************)
\* MIN_RELEVANCE_SCORE = 0.6, in hundredths
MIN_RELEVANCE_SCORE == 60

ALL_APARTMENTS == <<
    [name |-> <<"_hel","_ri","_o","_si","_ti">>,
     region |-> <<"_ga","_rak","_dong">>],
    [name |-> <<"_rae","_mi","_an","_beul","_re","_seu","_ti","_ji">>,
     region |-> <<"_gae","_po","_dong">>],
    [name |-> <<"_rae","_mi","_an","_dae","_chi","_pael","_ri","_seu">>,
     region |-> <<"_dae","_chi","_dong">>],
    [name |-> <<"_ri","_sen","_cheu">>,
     region |-> <<"_jam","_sil","_dong">>],
    [name |-> <<"_ban","_po","_ja","_i">>,
     region |-> <<"_ban","_po","_dong">>],
    [name |-> <<"_rae","_mi","_an","_won","_be","_il","_ri">>,
     region |-> <<"_ban","_po","_dong">>],
    [name |-> <<"_jam","_sil","_el","_seu">>,
     region |-> <<"_jam","_sil","_dong">>],
    [name |-> <<"_a","_keu","_ro","_ri","_beo","_pa","_keu">>,
     region |-> <<"_ban","_po","_dong">>],
    [name |-> <<"_teu","_ri","_ji","_um">>,
     region |-> <<"_jam","_sil","_dong">>],
    [name |-> <<"_rae","_mi","_an","_peo","_seu","_ti","_ji">>,
     region |-> <<"_ban","_po","_dong">>]
>>

\* the entries of TARGET_APARTMENTS the model iterates
TARGET_APARTMENTS == SubSeq(ALL_APARTMENTS, 1, NumApartments)

(***************************************************************************)
(* JSON values as they reach the scripts: a field of a provider item, or   *)
(* the "score" of a model response, is a string, a number, null or absent. *)
(***************************************************************************)
Str(s) == [t |-> "str", s |-> s, n |-> 0]
Num(n) == [t |-> "num", s |-> <<>>, n |-> n]
Null == [t |-> "null", s |-> <<>>, n |-> 0]
Absent == [t |-> "absent", s |-> <<>>, n |-> 0]

\* Python: d.get(key, default) for a field held as a JSON value
Get(field, default) == IF field.t = "absent" THEN default ELSE field

(***************************************************************************)
(* Relevance scoring.                                                      *)
(***************************************************************************)
price_keywords == <<<<"_eok">>,
                   <<"_man","_won">>,
                   <<"_geo","_rae">>,
                   <<"_sin","_go","_ga">>,
                   <<"_choe","_go","_ga">>,
                   <<"_mae","_mae">>,
                   <<"_jeon","_se">>>>

\* the four reason texts of the keyword strategy
R_DIRECT_PRICE == <<"_jik","_jeop"," ","_eon","_geup"," ","+"," ","_ga","_gyeok","/","_geo","_rae"," ","_jeong","_bo">>
R_DIRECT == <<"_jik","_jeop"," ","_eon","_geup">>
R_PARTIAL == <<"_bu","_bun"," ","_mae","_ching">>
R_LOW == <<"_gwan","_ryeon","_seong"," ","_naj","_eum">>

\* mutant of judge_relevance_simple: the length guard of the partial match
\* is off by one
judge_relevance_simple_short(apartment_name, news_title, news_desc) ==
    LET combined == Lower(news_title \o <<" ">> \o news_desc)
        apt_lower == Lower(apartment_name)
        apt_parts == Replace(Replace(Replace(apt_lower,
                         <<"_rae","_mi","_an">>, <<>>),
                         <<"_ja","_i">>, <<>>),
                         <<"_hil","_seu","_te","_i","_teu">>, <<>>)
    IN  IF Contains(combined, apt_lower)
        THEN IF AnyIn(price_keywords, combined)
             THEN [score |-> Num(90), reason |-> Str(R_DIRECT_PRICE)]
             ELSE [score |-> Num(70), reason |-> Str(R_DIRECT)]
        ELSE IF Len(apt_parts) >= 2 /\ Contains(combined, apt_parts)
             THEN [score |-> Num(50), reason |-> Str(R_PARTIAL)]
             ELSE [score |-> Num(20), reason |-> Str(R_LOW)]

\* collect_apartment_news.judge_relevance_simple
judge_relevance_simple(apartment_name, news_title, news_desc) ==
    LET combined == Lower(news_title \o <<" ">> \o news_desc)
        apt_lower == Lower(apartment_name)
        apt_parts == Replace(Replace(Replace(apt_lower,
                         <<"_rae","_mi","_an">>, <<>>),
                         <<"_ja","_i">>, <<>>),
                         <<"_hil","_seu","_te","_i","_teu">>, <<>>)
    IN  IF Contains(combined, apt_lower)
        THEN IF AnyIn(price_keywords, combined)
             THEN [score |-> Num(90), reason |-> Str(R_DIRECT_PRICE)]
             ELSE [score |-> Num(70), reason |-> Str(R_DIRECT)]
        ELSE IF Len(apt_parts) > 2 /\ Contains(combined, apt_parts)
             THEN [score |-> Num(50), reason |-> Str(R_PARTIAL)]
             ELSE [score |-> Num(20), reason |-> Str(R_LOW)]

\* what the chat-completion call can do: fail, answer text that is not JSON,
\* answer JSON that is not an object, or answer an object whose "score" is a
\* number in or out of [0, 1], a string, or absent
LLMScores == {Num(30), Num(60), Num(150), Str(<<"h","i","g","h">>), Absent}
LLMOutcomes ==
    {[kind |-> "call_error"], [kind |-> "parse_error"], [kind |-> "not_object"]}
    \cup {[kind |-> "object", score |-> sc, reason |-> Str(<<"L","L","M">>)] : sc \in LLMScores}

\* collect_apartment_news.judge_relevance_with_llm; `out` is what the model
\* endpoint does when it is called.  The result is the returned value: a
\* verdict object, or the non-object JSON value the model answered.
judge_relevance_with_llm(apartment_name, news_title, news_desc, api_key, out) ==
    IF ~api_key
    THEN [object |-> TRUE, called |-> FALSE,
          dict |-> judge_relevance_simple(apartment_name, news_title, news_desc)]
    ELSE IF out.kind \in {"call_error", "parse_error"}
    THEN [object |-> TRUE, called |-> TRUE,
          dict |-> judge_relevance_simple(apartment_name, news_title, news_desc)]
    ELSE IF out.kind = "not_object"
    THEN [object |-> FALSE, called |-> TRUE,
          dict |-> [score |-> Absent, reason |-> Absent]]
    ELSE [object |-> TRUE, called |-> TRUE,
          dict |-> [score |-> out.score, reason |-> out.reason]]

(***************************************************************************)
(* Published dates: email.utils.parsedate_to_datetime as the two date      *)
(* helpers use it, and the helpers.                                        *)
(***************************************************************************)
Digits == {"0","1","2","3","4","5","6","7","8","9"}

\* int(c) for a digit
DigitVal(c) ==
    CASE c = "0" -> 0 [] c = "1" -> 1 [] c = "2" -> 2 [] c = "3" -> 3
      [] c = "4" -> 4 [] c = "5" -> 5 [] c = "6" -> 6 [] c = "7" -> 7
      [] c = "8" -> 8 [] c = "9" -> 9

\* whether int(s) succeeds: s is one or more digits
IsNumber(s) == s # <<>> /\ \A k \in 1..Len(s) : s[k] \in Digits

RECURSIVE IntOf(_)
\* int(s) for a string of digits
IntOf(s) ==
    IF s = <<>> THEN 0
    ELSE 10 * IntOf(SubSeq(s, 1, Len(s) - 1)) + DigitVal(s[Len(s)])

RECURSIVE SplitOn(_, _, _)
\* the pieces of s between the characters of seps, given the piece begun;
\* empty pieces are kept
SplitOn(s, seps, piece) ==
    IF s = <<>> THEN <<piece>>
    ELSE IF Head(s) \in seps THEN <<piece>> \o SplitOn(Tail(s), seps, <<>>)
    ELSE SplitOn(Tail(s), seps, Append(piece, Head(s)))

RECURSIVE NonEmpty(_)
\* the words of a list that are not empty
NonEmpty(ws) ==
    IF ws = <<>> THEN <<>>
    ELSE IF Head(ws) = <<>> THEN NonEmpty(Tail(ws))
    ELSE <<Head(ws)>> \o NonEmpty(Tail(ws))

\* Python: s.split()
SplitBlank(s) == NonEmpty(SplitOn(s, Whitespace, <<>>))

\* the month abbreviations the parser knows, lower-cased
MonthNames ==
    << <<"j","a","n">>, <<"f","e","b">>, <<"m","a","r">>, <<"a","p","r">>,
       <<"m","a","y">>, <<"j","u","n">>, <<"j","u","l">>, <<"a","u","g">>,
       <<"s","e","p">>, <<"o","c","t">>, <<"n","o","v">>, <<"d","e","c">> >>

\* the number of the month named w, or 0
MonthOf(w) ==
    IF \E m \in 1..12 : MonthNames[m] = Lower(w)
    THEN CHOOSE m \in 1..12 : MonthNames[m] = Lower(w)
    ELSE 0

\* the days of month m of year y
DaysIn(y, m) ==
    IF m = 2
    THEN (IF y % 4 = 0 /\ (y % 100 # 0 \/ y % 400 = 0) THEN 29 ELSE 28)
    ELSE IF m \in {4, 6, 9, 11} THEN 30 ELSE 31

\* the part of w before its first "+" or "-", when that sign is not first
BeforeSign(w) ==
    LET plus == {k \in 1..Len(w) : w[k] = "+"}
        signs == IF plus # {} THEN plus ELSE {k \in 1..Len(w) : w[k] = "-"}
        first == IF signs = {} THEN 0 ELSE CHOOSE k \in signs : \A j \in signs : k <= j
    IN  IF first > 1 THEN SubSeq(w, 1, first - 1) ELSE w

\* the part of w after its last comma
AfterComma(w) ==
    LET commas == {k \in 1..Len(w) : w[k] = ","}
        last == IF commas = {} THEN 0 ELSE CHOOSE k \in commas : \A j \in commas : k >= j
    IN  SubSeq(w, last + 1, Len(w))

\* what parsing gives for a string that is not a date: ValueError
NotADate == [raised |-> TRUE, year |-> 0, month |-> 0, day |-> 0]

\* datetime(year, month, day, hour, minute, second): ValueError when a
\* field is out of range
MakeDate(year, month, day, parts) ==
    IF /\ year >= 1000 /\ year <= 9999
       /\ day >= 1 /\ day <= DaysIn(year, month)
       /\ IntOf(parts[1]) <= 23
       /\ IntOf(parts[2]) <= 59
       /\ Len(parts) = 3 => IntOf(parts[3]) <= 59
    THEN [raised |-> FALSE, year |-> year, month |-> month, day |-> day]
    ELSE NotADate

\* the day, the month name, the year and the parts of the time: each must
\* be a number, and the month a month name
ParseFields(dd, mm, yy, parts) ==
    IF /\ IsNumber(dd)
       /\ MonthOf(mm) > 0
       /\ IsNumber(yy)
       /\ Len(parts) \in {2, 3}
       /\ \A k \in 1..Len(parts) : IsNumber(parts[k])
    THEN MakeDate(IntOf(yy), MonthOf(mm), IntOf(dd), parts)
    ELSE NotADate

\* the words of the date after the day name: at least four, the fourth
\* being the time; of exactly four, the time ends where a zone sign begins
ParseData(data) ==
    IF Len(data) < 4 THEN NotADate
    ELSE ParseFields(data[1], data[2], data[3],
                     SplitOn(IF Len(data) = 4 THEN BeforeSign(data[4]) ELSE data[4],
                             {":"}, <<>>))

\* a first word ending in a comma (the day name) is dropped, and a comma
\* inside the first word cuts it
DropDayName(words) ==
    IF words = <<>> THEN words
    ELSE IF words[1][Len(words[1])] = "," THEN Tail(words)
    ELSE <<AfterComma(words[1])>> \o Tail(words)

\* email.utils.parsedate_to_datetime on a string: the date it returns, or
\* that it raises.  What follows the time is the zone and is not looked at.
parsedate_to_datetime(text) == ParseData(DropDayName(SplitBlank(text)))

\* the decimal digits of n, at least width of them
Decimal(n, width) ==
    LET d == <<"0","1","2","3","4","5","6","7","8","9">>
        four == <<d[((n \div 1000) % 10) + 1], d[((n \div 100) % 10) + 1],
                  d[((n \div 10) % 10) + 1], d[(n % 10) + 1]>>
    IN  SubSeq(four, 5 - width, 4)

\* dt.strftime("%Y-%m-%d")
strftime(dt) ==
    Decimal(dt.year, 4) \o <<"-">> \o Decimal(dt.month, 2) \o <<"-">>
        \o Decimal(dt.day, 2)

\* collect_apartment_news.parse_date on a JSON value: the string returned,
\* or that the call raises
parse_date(pub_date_str) ==
    IF pub_date_str.t # "str"
    THEN [raised |-> TRUE, value |-> <<>>]
    ELSE LET dt == parsedate_to_datetime(pub_date_str.s)
         IN  IF ~dt.raised
             THEN [raised |-> FALSE, value |-> strftime(dt)]
             ELSE [raised |-> FALSE,
                   value |-> IF Len(pub_date_str.s) >= 10
                             THEN SubSeq(pub_date_str.s, 1, 10)
                             ELSE pub_date_str.s]

\* mutant of format_pub_date: the fallback returns the whole string
format_pub_date_whole(pub_date_str) ==
    IF pub_date_str.t # "str"
    THEN [raised |-> TRUE, value |-> <<>>]
    ELSE LET dt == parsedate_to_datetime(pub_date_str.s)
         IN  IF ~dt.raised
             THEN [raised |-> FALSE, value |-> strftime(dt)]
             ELSE [raised |-> FALSE, value |-> pub_date_str.s]

\* collect_news.format_pub_date on a JSON value: the string returned, or
\* that the call raises
format_pub_date(pub_date_str) ==
    IF pub_date_str.t # "str"
    THEN [raised |-> TRUE, value |-> <<>>]
    ELSE LET dt == parsedate_to_datetime(pub_date_str.s)
         IN  IF ~dt.raised
             THEN [raised |-> FALSE, value |-> strftime(dt)]
             ELSE [raised |-> FALSE,
                   value |-> IF Len(pub_date_str.s) >= 10
                             THEN SubSeq(pub_date_str.s, 1, 10)
                             ELSE pub_date_str.s]

(***************************************************************************)
(* Source attribution.                                                     *)
(***************************************************************************)
\* extract_source's source_mapping, in insertion order
source_mapping ==
    <<
       [domain |-> <<"h","a","n","k","y","u","n","g",".","c","o","m">>,
        name |-> <<"_han","_guk","_gyeong","_je">>],
       [domain |-> <<"s","e","d","a","i","l","y",".","c","o","m">>,
        name |-> <<"_seo","_ul","_gyeong","_je">>],
       [domain |-> <<"n","e","w","s","i","s",".","c","o","m">>,
        name |-> <<"_nyu","_si","_seu">>],
       [domain |-> <<"f","n","n","e","w","s",".","c","o","m">>,
        name |-> <<"_pa","_i","_naen","_syeol","_nyu","_seu">>],
       [domain |-> <<"m","k",".","c","o",".","k","r">>,
        name |-> <<"_mae","_il","_gyeong","_je">>],
       [domain |-> <<"c","h","o","s","u","n",".","c","o","m">>,
        name |-> <<"_jo","_seon","_il","_bo">>],
       [domain |-> <<"d","o","n","g","a",".","c","o","m">>,
        name |-> <<"_dong","_a","_il","_bo">>],
       [domain |-> <<"j","o","o","n","g","a","n","g",".","c","o",".","k","r">>,
        name |-> <<"_jung","_ang","_il","_bo">>],
       [domain |-> <<"h","a","n","i",".","c","o",".","k","r">>,
        name |-> <<"_han","_gyeo","_re">>],
       [domain |-> <<"k","h","a","n",".","c","o",".","k","r">>,
        name |-> <<"_gyeong","_hyang","_sin","_mun">>],
       [domain |-> <<"y","n","a",".","c","o",".","k","r">>,
        name |-> <<"_yeon","_hap","_nyu","_seu">>],
       [domain |-> <<"s","b","s",".","c","o",".","k","r">>,
        name |-> <<"S","B","S">>],
       [domain |-> <<"k","b","s",".","c","o",".","k","r">>,
        name |-> <<"K","B","S">>],
       [domain |-> <<"m","b","c",".","c","o",".","k","r">>,
        name |-> <<"M","B","C">>],
       [domain |-> <<"e","t","o","d","a","y",".","c","o",".","k","r">>,
        name |-> <<"_i","_tu","_de","_i">>],
       [domain |-> <<"n","e","w","s","p","i","m",".","c","o","m">>,
        name |-> <<"_nyu","_seu","_pim">>],
       [domain |-> <<"m","o","n","e","y","s",".","c","o",".","k","r">>,
        name |-> <<"_meo","_ni","S">>],
       [domain |-> <<"b","i","z","h","a","n","k","o","o","k",".","c","o","m">>,
        name |-> <<"_bi","_jeu","_han","_guk">>]
    >>

\* extract_source_from_link's source_mapping, in insertion order
news_source_mapping ==
    <<
       [domain |-> <<"h","a","n","k","y","u","n","g",".","c","o","m">>,
        name |-> <<"_han","_guk","_gyeong","_je">>],
       [domain |-> <<"s","e","d","a","i","l","y",".","c","o","m">>,
        name |-> <<"_seo","_ul","_gyeong","_je">>],
       [domain |-> <<"n","e","w","s","i","s",".","c","o","m">>,
        name |-> <<"_nyu","_si","_seu">>],
       [domain |-> <<"f","n","n","e","w","s",".","c","o","m">>,
        name |-> <<"_pa","_i","_naen","_syeol","_nyu","_seu">>],
       [domain |-> <<"m","k",".","c","o",".","k","r">>,
        name |-> <<"_mae","_il","_gyeong","_je">>],
       [domain |-> <<"c","h","o","s","u","n",".","c","o","m">>,
        name |-> <<"_jo","_seon","_il","_bo">>],
       [domain |-> <<"d","o","n","g","a",".","c","o","m">>,
        name |-> <<"_dong","_a","_il","_bo">>],
       [domain |-> <<"j","o","o","n","g","a","n","g",".","c","o",".","k","r">>,
        name |-> <<"_jung","_ang","_il","_bo">>],
       [domain |-> <<"h","a","n","i",".","c","o",".","k","r">>,
        name |-> <<"_han","_gyeo","_re">>],
       [domain |-> <<"k","h","a","n",".","c","o",".","k","r">>,
        name |-> <<"_gyeong","_hyang","_sin","_mun">>],
       [domain |-> <<"y","n","a",".","c","o",".","k","r">>,
        name |-> <<"_yeon","_hap","_nyu","_seu">>],
       [domain |-> <<"s","b","s",".","c","o",".","k","r">>,
        name |-> <<"S","B","S">>],
       [domain |-> <<"k","b","s",".","c","o",".","k","r">>,
        name |-> <<"K","B","S">>],
       [domain |-> <<"m","b","c",".","c","o",".","k","r">>,
        name |-> <<"M","B","C">>],
       [domain |-> <<"i","c","h","a","n","n","e","l","a",".","c","o","m">>,
        name |-> <<"_chae","_neol","A">>],
       [domain |-> <<"i","n","e","w","s","2","4",".","c","o","m">>,
        name |-> <<"_a","_i","_nyu","_seu","2","4">>],
       [domain |-> <<"n","e","w","s","p","i","m",".","c","o","m">>,
        name |-> <<"_nyu","_seu","_pim">>],
       [domain |-> <<"m","o","n","e","y","s",".","c","o",".","k","r">>,
        name |-> <<"_meo","_ni","S">>],
       [domain |-> <<"p","i","n","p","o","i","n","t","n","e","w","s",".","c","o",".","k","r">>,
        name |-> <<"_pin","_po","_in","_teu","_nyu","_seu">>],
       [domain |-> <<"a","r","e","y","o","u",".","c","o",".","k","r">>,
        name |-> <<"_a","_yu","_gyeong","_je">>],
       [domain |-> <<"m","u","n","h","w","a",".","c","o","m">>,
        name |-> <<"_mun","_hwa","_il","_bo">>],
       [domain |-> <<"m","e","d","i","a","p","e","n",".","c","o","m">>,
        name |-> <<"_mi","_di","_eo","_pen">>]
    >>

\* the name given when no domain matches
FALLBACK_SOURCE == <<"_gi","_ta">>

RECURSIVE FirstSourceFrom(_, _, _)
\* for domain, source in mapping.items(): if domain in link: return source
FirstSourceFrom(mapping, link, k) ==
    IF k > Len(mapping) THEN FALLBACK_SOURCE
    ELSE IF Contains(link, mapping[k].domain) THEN mapping[k].name
    ELSE FirstSourceFrom(mapping, link, k + 1)

RECURSIVE LastSourceFrom(_, _, _)
\* the name of the last entry from k on whose domain is in link
LastSourceFrom(mapping, link, k) ==
    IF k > Len(mapping) THEN FALLBACK_SOURCE
    ELSE LET later == LastSourceFrom(mapping, link, k + 1)
         IN  IF later # FALLBACK_SOURCE THEN later
             ELSE IF Contains(link, mapping[k].domain) THEN mapping[k].name
             ELSE FALLBACK_SOURCE

\* mutant of extract_source: the last matching entry wins
extract_source_last(link) == LastSourceFrom(source_mapping, link, 1)

\* collect_apartment_news.extract_source
extract_source(link) == FirstSourceFrom(source_mapping, link, 1)

\* collect_news.extract_source_from_link
extract_source_from_link(link) == FirstSourceFrom(news_source_mapping, link, 1)

(***************************************************************************)
(* The search provider (Naver news search) and its adapter.                *)
(***************************************************************************)
\* documents the provider can return; each has its own link
DOC_A == [title |-> Str(<<"<","b",">","_hel","_ri","_o","_si","_ti","<","/","b",">"," ","_sin","_go","_ga">>),
          description |-> Str(<<"3","0","_eok"," ","_geo","_rae">>),
          link |-> Str(<<"h","t","t","p","s",":","/","/","w","w","w",".","h","a","n","k","y","u","n","g",".","c","o","m","/","a">>),
          originallink |-> Absent,
          pubDate |-> Str(<<"S","u","n",","," ","0","7"," ","D","e","c"," ","2","0","2","5"," ","1","9",":","3","2",":","0","0"," ","+","0","9","0","0">>)]
DOC_B == [title |-> Str(<<"_hel","_ri","_o","_si","_ti"," ","&","q","u","o","t",";","_ip","_ju","&","q","u","o","t",";">>),
          description |-> Absent,
          link |-> Str(<<"h","t","t","p","s",":","/","/","w","w","w",".","s","e","d","a","i","l","y",".","c","o","m","/","b">>),
          originallink |-> Str(<<"h","t","t","p","s",":","/","/","w","w","w",".","c","h","o","s","u","n",".","c","o","m","/","b">>),
          pubDate |-> Absent]
DOC_C == [title |-> Str(<<"_hel","_ri","_o","_si","_ti"," ","_jae","_geon","_chuk"," ">>),
          description |-> Str(<<>>),
          link |-> Str(<<"h","t","t","p","s",":","/","/","w","w","w",".","m","k",".","c","o",".","k","r","/","c">>),
          originallink |-> Absent,
          pubDate |-> Str(<<"2","0","2","5","-","1","2","-","0","7","T","1","0",":","0","0">>)]
DOC_D == [title |-> Str(<<"_rae","_mi","_an","_beul","_re","_seu","_ti","_ji"," ","_jeon","_se">>),
          description |-> Str(<<"_mae","_mul"," ","_sang","_seung">>),
          link |-> Str(<<"h","t","t","p","s",":","/","/","w","w","w",".","y","n","a",".","c","o",".","k","r","/","d">>),
          originallink |-> Str(<<"h","t","t","p","s",":","/","/","n","e","w","s",".","k","b","s",".","c","o",".","k","r","/","d">>),
          pubDate |-> Str(<<"M","o","n",","," ","0","8"," ","D","e","c"," ","2","0","2","5"," ","0","9",":","0","0",":","0","0"," ","+","0","9","0","0">>)]
DOC_E == [title |-> Str(<<"_beul","_re","_seu","_ti","_ji"," ","_bun","_yang">>),
          description |-> Str(<<"_cheong","_yak">>),
          link |-> Str(<<"h","t","t","p","s",":","/","/","e","x","a","m","p","l","e",".","c","o","m","/","e">>),
          originallink |-> Absent,
          pubDate |-> Str(<<"s","o","o","n">>)]
DOC_N == [title |-> Null,
          description |-> Str(<<"_bu","_dong","_san">>),
          link |-> Str(<<"h","t","t","p","s",":","/","/","e","x","a","m","p","l","e",".","c","o","m","/","n">>),
          originallink |-> Absent,
          pubDate |-> Absent]
DOC_F == [title |-> Str(<<"_hel","_ri","_o","_si","_ti"," ","_bun","_yang">>),
          description |-> Str(<<"_cheong","_yak"," ","_il","_jeong">>),
          link |-> Str(<<"h","t","t","p","s",":","/","/","w","w","w",".","k","h","a","n",".","c","o",".","k","r","/","f">>),
          originallink |-> Absent,
          pubDate |-> Str(<<"T","u","e",","," ","0","9"," ","D","e","c"," ","2","0","2","5"," ","0","8",":","3","0",":","0","0"," ","+","0","9","0","0">>)]

Pool == {DOC_A, DOC_B, DOC_C, DOC_D, DOC_E, DOC_N}

\* the documents the provider holds during a keyword-mode call: each names
\* the first apartment, one of them beside a price
TierPool == {DOC_A, DOC_B, DOC_C, DOC_F}

\* the documents the provider holds during a run of either batch script
BatchPool == {DOC_A, DOC_N}
NewsPool == {DOC_A, DOC_D, DOC_N}

\* the item lists a response can carry: up to n distinct documents of the
\* provider's catalog, in any order
ItemLists(n, docs) ==
    {l \in UNION {[1..k -> docs] : k \in 0..n} :
        \A a, b \in 1..Len(l) : a # b => l[a] # l[b]}

\* the total the provider reports beside a list of items
ProviderTotal(l) == IF l = <<>> THEN 0 ELSE 100 + Len(l)

\* what one HTTP request can do: fail, answer a body that does not decode or
\* parse, or answer a result object
NetOutcomes(n, docs) ==
    {[kind |-> "http_error"], [kind |-> "bad_body"]}
    \cup {[kind |-> "ok", body |-> [items |-> l, total |-> ProviderTotal(l)]] :
            l \in ItemLists(n, docs)}

EMPTY_RESULT == [items |-> <<>>, total |-> 0]

\* mutant of search_naver_news: a failed request is not caught
search_naver_news_raises(env, net) ==
    IF ~env.NAVER_CLIENT_ID \/ ~env.NAVER_CLIENT_SECRET
    THEN [raised |-> FALSE, sent |-> FALSE, value |-> EMPTY_RESULT]
    ELSE IF net.kind # "ok"
    THEN [raised |-> TRUE, sent |-> TRUE, value |-> EMPTY_RESULT]
    ELSE [raised |-> FALSE, sent |-> TRUE, value |-> net.body]

\* collect_apartment_news.search_naver_news; `net` is what the request does
\* if it is sent.  sent: whether a request went out; raised: whether an
\* exception leaves the function.
search_naver_news(env, net) ==
    IF ~env.NAVER_CLIENT_ID \/ ~env.NAVER_CLIENT_SECRET
    THEN [raised |-> FALSE, sent |-> FALSE, value |-> EMPTY_RESULT]
    ELSE IF net.kind # "ok"
    THEN [raised |-> FALSE, sent |-> TRUE, value |-> EMPTY_RESULT]
    ELSE [raised |-> FALSE, sent |-> TRUE, value |-> net.body]

\* the two query strings of collect_apartment_news
APT_WORD == <<"_a","_pa","_teu">>
Query1(apt) == apt.name \o <<" ">> \o APT_WORD
Query2(apt) == apt.region \o <<" ">> \o apt.name

(***************************************************************************)
(* Ranking, summary and tier.                                              *)
(***************************************************************************)
RECURSIVE InsertDesc_unstable(_, _)
\* mutant of InsertDesc: x overtakes the elements whose score equals its own
InsertDesc_unstable(sorted, x) ==
    IF sorted = <<>> THEN <<x>>
    ELSE IF Head(sorted).relevance_score.n > x.relevance_score.n
    THEN <<Head(sorted)>> \o InsertDesc_unstable(Tail(sorted), x)
    ELSE <<x>> \o sorted

RECURSIVE InsertDesc(_, _)
\* x goes after every element whose score is not below its own
InsertDesc(sorted, x) ==
    IF sorted = <<>> THEN <<x>>
    ELSE IF Head(sorted).relevance_score.n >= x.relevance_score.n
    THEN <<Head(sorted)>> \o InsertDesc(Tail(sorted), x)
    ELSE <<x>> \o sorted

RECURSIVE SortByScoreDesc(_)
\* list.sort(key=relevance_score, reverse=True): descending, stable
SortByScoreDesc(items) ==
    IF items = <<>> THEN <<>>
    ELSE InsertDesc(SortByScoreDesc(SubSeq(items, 1, Len(items) - 1)), items[Len(items)])

\* mutant of DelScores: the score stays on every item
DelScores_keep(items) == items

\* del item["relevance_score"] for every item
DelScores(items) ==
    [k \in 1..Len(items) |->
        [title |-> items[k].title, link |-> items[k].link,
         description |-> items[k].description, pubDate |-> items[k].pubDate,
         source |-> items[k].source, relevance |-> items[k].relevance]]

RECURSIVE JoinText(_)
\* " ".join(title + " " + description for item in items)
JoinText(items) ==
    IF items = <<>> THEN <<>>
    ELSE IF Len(items) = 1 THEN items[1].title \o <<" ">> \o items[1].description
    ELSE JoinText(SubSeq(items, 1, Len(items) - 1)) \o <<" ">>
         \o items[Len(items)].title \o <<" ">> \o items[Len(items)].description

T_RECORD == "record price"
T_RISE == "price rise"
T_REBUILD == "redevelopment"
T_PRESALE == "pre-sale/move-in"
T_TRADE == "trade volume"

\* mutant of generate_summary: every matched topic is named
generate_summary_uncut(apt_name, items) ==
    LET all_text == JoinText(items)
        k1 == IF AnyIn(<<<<"_sin","_go","_ga">>, <<"_choe","_go","_ga">>, <<"_eok","_won">>>>, all_text)
              THEN <<T_RECORD>> ELSE <<>>
        k2 == IF AnyIn(<<<<"_sang","_seung">>, <<"_geup","_deung">>, <<"_o","_reu">>>>, all_text)
              THEN <<T_RISE>> ELSE <<>>
        k3 == IF AnyIn(<<<<"_jae","_geon","_chuk">>, <<"_jae","_gae","_bal">>, <<"_jeong","_bi">>>>, all_text)
              THEN <<T_REBUILD>> ELSE <<>>
        k4 == IF AnyIn(<<<<"_bun","_yang">>, <<"_cheong","_yak">>, <<"_ip","_ju">>>>, all_text)
              THEN <<T_PRESALE>> ELSE <<>>
        k5 == IF AnyIn(<<<<"_geo","_rae","_ryang">>, <<"_mae","_mul">>>>, all_text)
              THEN <<T_TRADE>> ELSE <<>>
        keywords == k1 \o k2 \o k3 \o k4 \o k5
    IN  IF items = <<>>
        THEN [kind |-> "insufficient", name |-> apt_name, topics |-> <<>>]
        ELSE IF keywords # <<>>
        THEN [kind |-> "topics", name |-> apt_name,
              topics |-> keywords]
        ELSE [kind |-> "generic", name |-> apt_name, topics |-> <<>>]

\* collect_apartment_news.generate_summary; the summary text is held as its
\* kind, the apartment name and the topics it names
generate_summary(apt_name, items) ==
    LET all_text == JoinText(items)
        k1 == IF AnyIn(<<<<"_sin","_go","_ga">>, <<"_choe","_go","_ga">>, <<"_eok","_won">>>>, all_text)
              THEN <<T_RECORD>> ELSE <<>>
        k2 == IF AnyIn(<<<<"_sang","_seung">>, <<"_geup","_deung">>, <<"_o","_reu">>>>, all_text)
              THEN <<T_RISE>> ELSE <<>>
        k3 == IF AnyIn(<<<<"_jae","_geon","_chuk">>, <<"_jae","_gae","_bal">>, <<"_jeong","_bi">>>>, all_text)
              THEN <<T_REBUILD>> ELSE <<>>
        k4 == IF AnyIn(<<<<"_bun","_yang">>, <<"_cheong","_yak">>, <<"_ip","_ju">>>>, all_text)
              THEN <<T_PRESALE>> ELSE <<>>
        k5 == IF AnyIn(<<<<"_geo","_rae","_ryang">>, <<"_mae","_mul">>>>, all_text)
              THEN <<T_TRADE>> ELSE <<>>
        keywords == k1 \o k2 \o k3 \o k4 \o k5
    IN  IF items = <<>>
        THEN [kind |-> "insufficient", name |-> apt_name, topics |-> <<>>]
        ELSE IF keywords # <<>>
        THEN [kind |-> "topics", name |-> apt_name,
              topics |-> SubSeq(keywords, 1, IF Len(keywords) < 3 THEN Len(keywords) ELSE 3)]
        ELSE [kind |-> "generic", name |-> apt_name, topics |-> <<>>]

\* the double a score literal of judge_relevance_simple denotes
ToFloat(score) ==
    CASE score.n = 90 -> F_0_9
      [] score.n = 70 -> F_0_7
      [] score.n = 50 -> F_0_5
      [] score.n = 20 -> F_0_2

\* the keyword scores the tier is computed from (lines 299-304)
TierScores(apt_name, items) ==
    [k \in 1..Len(items) |->
        ToFloat(judge_relevance_simple(apt_name, items[k].title, items[k].description).score)]

\* mutant of relevance_level: the mean of no scores is taken as 1
relevance_level_unguarded(apt_name, items) ==
    LET avg_score == IF items # <<>>
                     THEN FloatDiv(FloatSum(TierScores(apt_name, items)), Len(items))
                     ELSE F_0_9
    IN  IF FloatGe(avg_score, F_0_85) THEN "very_high"
        ELSE IF FloatGe(avg_score, F_0_7) THEN "high"
        ELSE "medium"

\* avg_score and relevance_level
relevance_level(apt_name, items) ==
    LET avg_score == IF items # <<>>
                     THEN FloatDiv(FloatSum(TierScores(apt_name, items)), Len(items))
                     ELSE F_ZERO
    IN  IF FloatGe(avg_score, F_0_85) THEN "very_high"
        ELSE IF FloatGe(avg_score, F_0_7) THEN "high"
        ELSE "medium"

\* mutant of ApartmentRecord: news_count is the provider's total
ApartmentRecord_total(apt, total_news, items) ==
    [region |-> apt.region,
     total_news |-> total_news,
     relevance_score |-> relevance_level(apt.name, items),
     news_count |-> total_news,
     summary |-> generate_summary(apt.name, items),
     items |-> items]

\* the record collect_apartment_news returns
ApartmentRecord(apt, total_news, items) ==
    [region |-> apt.region,
     total_news |-> total_news,
     relevance_score |-> relevance_level(apt.name, items),
     news_count |-> Len(items),
     summary |-> generate_summary(apt.name, items),
     items |-> items]

\* mutant of Passes: the threshold itself is excluded
Passes_strict(score) == score.n > MIN_RELEVANCE_SCORE

\* line 273: score >= MIN_RELEVANCE_SCORE, on a number
Passes(score) == score.n >= MIN_RELEVANCE_SCORE

\* one pass of the loop body (lines 260-286) over `item`: whether it raises,
\* the "score" entry of the verdict the scorer returned (absent when the
\* verdict has none, null when the scorer returned no object) and its
\* "reason" entry, if the scorer was reached, whether the model endpoint was
\* called, and the NewsItem the pass appends, if any
ScoreOne(apt_name, item, llm, api_key, out) ==
    LET rawTitle == Get(item.title, Str(<<>>))
        rawDesc == Get(item.description, Str(<<>>))
        title == clean_html(rawTitle.s)
        desc == clean_html(rawDesc.s)
        relevance == IF llm
                     THEN judge_relevance_with_llm(apt_name, title, desc, api_key, out)
                     ELSE [object |-> TRUE, called |-> FALSE,
                           dict |-> judge_relevance_simple(apt_name, title, desc)]
        score == Get(relevance.dict.score, Num(0))
        reason == Get(relevance.dict.reason, Str(<<>>))
        verdict == <<IF relevance.object THEN relevance.dict.score ELSE Null>>
        said == <<IF relevance.object THEN reason ELSE Null>>
        pubDate == parse_date(Get(item.pubDate, Str(<<>>)))
        origin == Get(item.originallink, Get(item.link, Str(<<>>)))
    IN  IF rawTitle.t # "str" \/ rawDesc.t # "str"
        THEN [raised |-> TRUE, called |-> FALSE, verdict |-> <<>>, reason |-> <<>>, keep |-> <<>>]
        ELSE IF ~relevance.object \/ score.t # "num"
        THEN [raised |-> TRUE, called |-> relevance.called, verdict |-> verdict, reason |-> said, keep |-> <<>>]
        ELSE IF Passes(score) /\ (pubDate.raised \/ origin.t # "str")
        THEN [raised |-> TRUE, called |-> relevance.called, verdict |-> verdict, reason |-> said, keep |-> <<>>]
        ELSE IF Passes(score)
        THEN [raised |-> FALSE, called |-> relevance.called, verdict |-> verdict, reason |-> said,
              keep |-> <<[title |-> title,
                          link |-> Get(item.link, Str(<<>>)),
                          description |-> desc,
                          pubDate |-> pubDate.value,
                          source |-> extract_source(origin.s),
                          relevance |-> reason,
                          relevance_score |-> score]>>]
        ELSE [raised |-> FALSE, called |-> relevance.called, verdict |-> verdict, reason |-> said, keep |-> <<>>]

(***************************************************************************)
(* collect_news.py: configuration and helpers.                             *)
(***************************************************************************)
ALL_REGIONS == <<
    <<"_jam","_sil","_dong">>,
    <<"_gae","_po","_dong">>,
    <<"_dae","_chi","_dong">>,
    <<"_ban","_po","_dong">>,
    <<"_seo","_cho","_dong">>,
    <<"_dang","_san","_dong">>,
    <<"_yeo","_ui","_do","_dong">>,
    <<"_mok","_dong">>,
    <<"_bong","_cheon","_dong">>,
    <<"_sin","_rim","_dong">>,
    <<"_i","_chon","_dong">>,
    <<"_yeong","_deung","_po","_dong">>
>>

\* the entries of TARGET_REGIONS the model iterates
TARGET_REGIONS == SubSeq(ALL_REGIONS, 1, NumRegions)

\* collect_news.clean_html_tags
clean_html_tags(text) ==
    LET c1 == SubDelimited(text, "<", ">", FALSE, 1)
        c2 == Replace(c1, E_QUOT, DQ)
        c3 == Replace(c2, E_AMP, AMP)
        c4 == Replace(c3, E_LT, LT)
        c5 == Replace(c4, E_GT, GT)
        c6 == Replace(c5, E_APOS, SQ)
        c7 == SubDelimited(c6, "\"", "\"", TRUE, 1)
        c8 == Replace(c7, DQ, SQ)
    IN  Strip(c8)

\* collect_news.process_news_item: the exception it raises, or the item
process_news_item(item) ==
    LET rawTitle == Get(item.title, Str(<<>>))
        rawDesc == Get(item.description, Str(<<>>))
        pubDate == format_pub_date(Get(item.pubDate, Str(<<>>)))
        origin == Get(item.originallink, Get(item.link, Str(<<>>)))
    IN  IF rawTitle.t # "str" \/ rawDesc.t # "str" \/ pubDate.raised
           \/ origin.t # "str"
        THEN [raised |-> TRUE, item |-> <<>>]
        ELSE [raised |-> FALSE,
              item |-> <<[title |-> clean_html_tags(rawTitle.s),
                          link |-> Get(item.link, Str(<<>>)),
                          description |-> clean_html_tags(rawDesc.s),
                          pubDate |-> pubDate.value,
                          source |-> extract_source_from_link(origin.s)]>>]

RECURSIVE ProcessItems_reversed(_)
\* mutant of ProcessItems: the items come out in the reverse order
ProcessItems_reversed(items) ==
    IF items = <<>> THEN [raised |-> FALSE, items |-> <<>>]
    ELSE LET first == process_news_item(Head(items))
             rest == ProcessItems_reversed(Tail(items))
         IN  IF first.raised \/ rest.raised
             THEN [raised |-> TRUE, items |-> <<>>]
             ELSE [raised |-> FALSE, items |-> rest.items \o first.item]

RECURSIVE ProcessItems(_)
\* [process_news_item(item) for item in items]
ProcessItems(items) ==
    IF items = <<>> THEN [raised |-> FALSE, items |-> <<>>]
    ELSE LET first == process_news_item(Head(items))
             rest == ProcessItems(Tail(items))
         IN  IF first.raised \/ rest.raised
             THEN [raised |-> TRUE, items |-> <<>>]
             ELSE [raised |-> FALSE, items |-> first.item \o rest.items]

T_FALL == "price fall"

\* the topics one title adds (lines 125-134)
TitleTopics(title) ==
    (IF AnyIn(<<<<"_eok">>, <<"_sang","_seung">>, <<"_o","_reu">>, <<"_geup","_deung">>>>, title)
     THEN {T_RISE} ELSE {})
    \cup (IF AnyIn(<<<<"_ha","_rak">>, <<"_tteol","_eo">>, <<"_geup","_rak">>>>, title)
          THEN {T_FALL} ELSE {})
    \cup (IF AnyIn(<<<<"_jae","_geon","_chuk">>, <<"_jae","_gae","_bal">>, <<"_jeong","_bi">>>>, title)
          THEN {T_REBUILD} ELSE {})
    \cup (IF AnyIn(<<<<"_bun","_yang">>, <<"_cheong","_yak">>, <<"_ip","_ju">>>>, title)
          THEN {T_PRESALE} ELSE {})

\* collect_news.generate_summary; the text is held as its kind, the region
\* and the set of topics it names (it names them in the iteration order of a
\* Python set)
news_generate_summary(items, region) ==
    LET first3 == SubSeq(items, 1, IF Len(items) < 3 THEN Len(items) ELSE 3)
        keywords == UNION {TitleTopics(first3[k].title) : k \in 1..Len(first3)}
    IN  IF items = <<>> THEN [kind |-> "none", region |-> region, topics |-> {}]
        ELSE IF keywords # {} THEN [kind |-> "topics", region |-> region, topics |-> keywords]
        ELSE [kind |-> "generic", region |-> region, topics |-> {}]

\* mutant of FetchRegion: a failed region keeps nothing of the earlier run
FetchRegion_nocarry(region, net, existing) ==
    LET processed == ProcessItems(net.body.items)
        failed == net.kind # "ok" \/ processed.raised
    IN  IF ~failed
        THEN <<[total_news |-> net.body.total,
                items |-> processed.items,
                summary |-> news_generate_summary(processed.items, region)]>>
        ELSE <<>>

\* lines 203-222 for one region: the record stored for it, if any.  `net` is
\* what the request does; `existing` is existing_data, <<>> standing for None.
FetchRegion(region, net, existing) ==
    LET processed == ProcessItems(net.body.items)
        failed == net.kind # "ok" \/ processed.raised
    IN  IF ~failed
        THEN <<[total_news |-> net.body.total,
                items |-> processed.items,
                summary |-> news_generate_summary(processed.items, region)]>>
        ELSE IF existing # <<>> /\ region \in DOMAIN existing[1].regions
        THEN <<existing[1].regions[region]>>
        ELSE <<>>

(***************************************************************************)
(* State.                                                                  *)
(***************************************************************************)
VARIABLES
    environ,        \* which of the environment's keys are set (non-empty)
    display,        \* most items the provider returns per request
    catalog,        \* the documents the provider holds
    calls,          \* history: each search call's query and what its request did
    pc,             \* position inside collect_apartment_news
    apartment,      \* its argument
    use_llm,        \* its argument
    search_result,  \* its local
    i,              \* index into raw_items of the item the loop is at
    filtered_items, \* its local
    verdicts,       \* history: the "score" entry of each verdict returned so far
    reasons,        \* history: the "reason" entry of each verdict returned so far
    apt_data,       \* the value it returned
    main_pc,        \* position inside collect_apartment_news.main
    main_use_llm,   \* main's local use_llm
    main_i,         \* index into TARGET_APARTMENTS
    result,         \* main's local
    apt_file,       \* data/apartment_news.json: <<>> when there is no file
    apt_prior,      \* history: that file when the run started
    news_pc,        \* position inside collect_news.main
    existing_data,  \* its local: <<>> for None
    news_data,      \* its local
    region_i,       \* index into TARGET_REGIONS
    news_file,      \* data/news_headlines.json: <<>> when there is no file
    news_prior,     \* history: that file when the run started
    fetched,        \* history: what each region's request did
    model_calls,    \* history: per verdict, whether the model endpoint was called
    callee,         \* the function a direct call is made on
    args,           \* its arguments
    returned,       \* the values it returned, oldest first
    page_pc,        \* position inside a run of the news page's script
    trend_file,     \* data/search_trend.json: <<>> when there is no file
    cache,          \* st.cache_data: per loader, <<>> or the value it holds
    apt_news,       \* the page's global: <<>> for None
    region_news,    \* the page's global: <<>> for None
    trend_data,     \* the page's global: <<>> for None
    rendered,       \* what the tabs of this run of the page have shown
    reads           \* history: the documents this run has read a field of

fnVars == <<callee, args, returned>>
pageVars == <<page_pc, trend_file, cache, apt_news, region_news, trend_data,
              rendered, reads>>
envVars == <<environ, display, catalog, fnVars, pageVars>>
callVars == <<pc, apartment, use_llm, search_result, i, filtered_items, verdicts, reasons,
              apt_data>>
mainVars == <<main_pc, main_use_llm, main_i, result, apt_file, apt_prior>>
newsVars == <<news_pc, existing_data, news_data, region_i, news_file, news_prior, fetched>>
vars == <<envVars, calls, model_calls, callVars, mainVars, newsVars>>

\* st.cache_data before any loader has run
NoCache == [apartment_news |-> <<>>, region_news |-> <<>>, search_trend |-> <<>>]

\* the state of the news page while it is not being served
PageIdle ==
    /\ page_pc = "idle"
    /\ trend_file = <<>>
    /\ cache = NoCache
    /\ apt_news = <<>>
    /\ region_news = <<>>
    /\ trend_data = <<>>
    /\ rendered = <<>>
    /\ reads = {}

Environs ==
    [NAVER_CLIENT_ID : BOOLEAN, NAVER_CLIENT_SECRET : BOOLEAN, OPENAI_API_KEY : BOOLEAN]

NoApartment == [name |-> <<>>, region |-> <<>>]
NoRecord == [region |-> <<>>, total_news |-> 0, relevance_score |-> "", news_count |-> 0,
             summary |-> [kind |-> "", name |-> <<>>, topics |-> <<>>], items |-> <<>>]
NoResult == [last_updated |-> "", metadata |-> [total_apartments |-> 0,
             relevance_filter |-> "", min_relevance_score |-> 0],
             apartments |-> <<>>, fallback_regions |-> {}]
NoNews == [last_updated |-> "", regions |-> <<>>]

\* a file on disk: a complete JSON document, or text that does not parse
Document(doc) == <<[complete |-> TRUE, doc |-> doc]>>

raw_items == search_result.items
total_news == search_result.total

\* the history entry of one search call: its query and, when a request was
\* sent, what the request did
Call(query, sent, net) ==
    [query |-> query,
     kind |-> IF ~sent THEN "none" ELSE IF net.kind = "ok" THEN "ok" ELSE "failed"]

\* the history entry of one call of search_naver_news: its query, what its
\* request did, and the value it returned
SearchCall(query, r, net) ==
    [query |-> query,
     kind |-> IF ~r.sent THEN "none" ELSE IF net.kind = "ok" THEN "ok" ELSE "failed",
     value |-> r.value]

\* d[key] = value on a Python dict held as a function
Put(d, key, value) == [k \in (DOMAIN d) \cup {key} |-> IF k = key THEN value ELSE d[k]]

(***************************************************************************)
(* collect_apartment_news (lines 238-314), step by step.                   *)
(***************************************************************************)
\* entry: the locals before the first statement
Enter(apt, llm) ==
    /\ pc' = "search"
    /\ apartment' = apt
    /\ use_llm' = llm
    /\ search_result' = EMPTY_RESULT
    /\ i' = 1
    /\ filtered_items' = <<>>
    /\ verdicts' = <<>>
    /\ reasons' = <<>>
    /\ apt_data' = NoRecord

\* mutant of Search1: an empty first result is not searched again
Search1_once ==
    /\ pc = "search"
    /\ \E net \in NetOutcomes(display, catalog) :
         LET r == search_naver_news(environ, net) IN
         /\ calls' = Append(calls, SearchCall(Query1(apartment), r, net))
         /\ search_result' = r.value
         /\ pc' = IF r.raised THEN "raised" ELSE "score"
    /\ UNCHANGED <<envVars, model_calls, apartment, use_llm, i, filtered_items, verdicts,
                   reasons, apt_data, mainVars, newsVars>>

\* line 246: the first search, by "{name} apartment"
Search1 ==
    /\ pc = "search"
    /\ \E net \in NetOutcomes(display, catalog) :
         LET r == search_naver_news(environ, net) IN
         /\ calls' = Append(calls, SearchCall(Query1(apartment), r, net))
         /\ search_result' = r.value
         /\ pc' = IF r.raised THEN "raised"
                  ELSE IF r.value.items = <<>> THEN "retry" ELSE "score"
    /\ UNCHANGED <<envVars, model_calls, apartment, use_llm, i, filtered_items, verdicts,
                   reasons, apt_data, mainVars, newsVars>>

\* lines 248-250: the search again, by "{region} {name}"
Search2 ==
    /\ pc = "retry"
    /\ \E net \in NetOutcomes(display, catalog) :
         LET r == search_naver_news(environ, net) IN
         /\ calls' = Append(calls, SearchCall(Query2(apartment), r, net))
         /\ search_result' = r.value
         /\ pc' = IF r.raised THEN "raised" ELSE "score"
    /\ UNCHANGED <<envVars, model_calls, apartment, use_llm, i, filtered_items, verdicts,
                   reasons, apt_data, mainVars, newsVars>>

\* lines 260-286: one pass of the loop
ScoreItem ==
    /\ pc = "score"
    /\ i <= Len(raw_items)
    /\ \E out \in (IF use_llm /\ environ.OPENAI_API_KEY
                   THEN LLMOutcomes ELSE {[kind |-> "call_error"]}) :
         LET r == ScoreOne(apartment.name, raw_items[i], use_llm,
                           environ.OPENAI_API_KEY, out) IN
         /\ pc' = IF r.raised THEN "raised" ELSE "score"
         /\ verdicts' = verdicts \o r.verdict
         /\ reasons' = reasons \o r.reason
         /\ filtered_items' = filtered_items \o r.keep
         /\ model_calls' = Append(model_calls, r.called)
    /\ i' = i + 1
    /\ UNCHANGED <<envVars, calls, apartment, use_llm, search_result,
                   apt_data, mainVars, newsVars>>

\* line 289
SortItems ==
    /\ pc = "score"
    /\ i > Len(raw_items)
    /\ filtered_items' = SortByScoreDesc(filtered_items)
    /\ pc' = "del"
    /\ UNCHANGED <<envVars, model_calls, calls, apartment, use_llm, search_result, i,
                   verdicts, reasons, apt_data, mainVars, newsVars>>

\* lines 292-293
DelItemScores ==
    /\ pc = "del"
    /\ filtered_items' = DelScores(filtered_items)
    /\ pc' = "summarize"
    /\ UNCHANGED <<envVars, model_calls, calls, apartment, use_llm, search_result, i,
                   verdicts, reasons, apt_data, mainVars, newsVars>>

\* lines 296-314
Return ==
    /\ pc = "summarize"
    /\ apt_data' = ApartmentRecord(apartment, total_news, filtered_items)
    /\ pc' = "returned"
    /\ UNCHANGED <<envVars, model_calls, calls, apartment, use_llm, search_result, i,
                   filtered_items, verdicts, reasons, mainVars, newsVars>>

\* the apartments single calls are made on
SampleApartments == {ALL_APARTMENTS[1], ALL_APARTMENTS[2]}

\* one call of collect_apartment_news, on either sample apartment, in either
\* mode, under any environment
Init ==
    /\ environ \in Environs
    /\ display = MaxItems
    /\ catalog = Pool
    /\ calls = <<>>
    /\ pc = "search"
    /\ apartment \in SampleApartments
    /\ use_llm \in BOOLEAN
    /\ search_result = EMPTY_RESULT
    /\ i = 1
    /\ filtered_items = <<>>
    /\ verdicts = <<>>
    /\ reasons = <<>>
    /\ apt_data = NoRecord
    /\ main_pc = "idle"
    /\ main_use_llm = FALSE
    /\ main_i = 1
    /\ result = NoResult
    /\ apt_file = <<>>
    /\ apt_prior = <<>>
    /\ news_pc = "idle"
    /\ existing_data = <<>>
    /\ news_data = NoNews
    /\ region_i = 1
    /\ news_file = <<>>
    /\ news_prior = <<>>
    /\ fetched = <<>>
    /\ model_calls = <<>>
    /\ callee = "none"
    /\ PageIdle
    /\ args = <<>>
    /\ returned = <<>>

Next == Search1 \/ Search2 \/ ScoreItem \/ SortItems \/ DelItemScores \/ Return

Spec == Init /\ [][Next]_vars

\* one call of collect_apartment_news(apartment, use_llm=False) with both
\* search credentials set, the provider returning up to TierItems documents
InitTier ==
    /\ environ \in {e \in Environs : e.NAVER_CLIENT_ID /\ e.NAVER_CLIENT_SECRET}
    /\ display = TierItems
    /\ catalog = TierPool
    /\ calls = <<>>
    /\ pc = "search"
    /\ apartment = ALL_APARTMENTS[1]
    /\ use_llm = FALSE
    /\ search_result = EMPTY_RESULT
    /\ i = 1
    /\ filtered_items = <<>>
    /\ verdicts = <<>>
    /\ reasons = <<>>
    /\ apt_data = NoRecord
    /\ main_pc = "idle"
    /\ main_use_llm = FALSE
    /\ main_i = 1
    /\ result = NoResult
    /\ apt_file = <<>>
    /\ apt_prior = <<>>
    /\ news_pc = "idle"
    /\ existing_data = <<>>
    /\ news_data = NoNews
    /\ region_i = 1
    /\ news_file = <<>>
    /\ news_prior = <<>>
    /\ fetched = <<>>
    /\ model_calls = <<>>
    /\ callee = "none"
    /\ args = <<>>
    /\ returned = <<>>
    /\ PageIdle

SpecTier == InitTier /\ [][Next]_vars

(***************************************************************************)
(* collect_apartment_news.main (lines 343-387).                            *)
(***************************************************************************)
Blank ==
    /\ pc' = "idle"
    /\ apartment' = NoApartment
    /\ use_llm' = FALSE
    /\ search_result' = EMPTY_RESULT
    /\ i' = 1
    /\ filtered_items' = <<>>
    /\ verdicts' = <<>>
    /\ reasons' = <<>>
    /\ apt_data' = NoRecord

ApartmentNames == {TARGET_APARTMENTS[k].name : k \in 1..Len(TARGET_APARTMENTS)}

\* the result object before the loop (lines 357-370)
NewResult(llm) ==
    [last_updated |-> "now",
     metadata |-> [total_apartments |-> Len(TARGET_APARTMENTS),
                   relevance_filter |-> IF llm THEN "LLM-based" ELSE "keyword-based",
                   min_relevance_score |-> MIN_RELEVANCE_SCORE],
     apartments |-> <<>>,
     fallback_regions |-> {TARGET_APARTMENTS[k].region : k \in 1..Len(TARGET_APARTMENTS)}]

\* mutant of MainBegin: the model-backed mode is chosen whatever the
\* environment holds
MainBegin_llm ==
    /\ main_pc = "start"
    /\ main_use_llm' = TRUE
    /\ result' = NewResult(TRUE)
    /\ main_i' = 1
    /\ main_pc' = "loop"
    /\ UNCHANGED <<envVars, model_calls, calls, callVars, apt_file, apt_prior, newsVars>>

\* lines 350-370
MainBegin ==
    /\ main_pc = "start"
    /\ main_use_llm' = environ.OPENAI_API_KEY
    /\ result' = NewResult(environ.OPENAI_API_KEY)
    /\ main_i' = 1
    /\ main_pc' = "loop"
    /\ UNCHANGED <<envVars, model_calls, calls, callVars, apt_file, apt_prior, newsVars>>

\* line 373: the call
MainCall ==
    /\ main_pc = "loop"
    /\ main_i <= Len(TARGET_APARTMENTS)
    /\ Enter(TARGET_APARTMENTS[main_i], main_use_llm)
    /\ main_pc' = "call"
    /\ UNCHANGED <<envVars, model_calls, calls, main_use_llm, main_i, result, apt_file, apt_prior, newsVars>>

\* mutant of MainStore: the loop steps over the next entity
MainStore_skip ==
    /\ main_pc = "call"
    /\ pc = "returned"
    /\ result' = [result EXCEPT !.apartments = Put(@, apartment.name, apt_data)]
    /\ main_i' = main_i + 2
    /\ main_pc' = "loop"
    /\ Blank
    /\ UNCHANGED <<envVars, model_calls, calls, main_use_llm, apt_file, apt_prior, newsVars>>

\* lines 373-374: the call returns and its record is stored
MainStore ==
    /\ main_pc = "call"
    /\ pc = "returned"
    /\ result' = [result EXCEPT !.apartments = Put(@, apartment.name, apt_data)]
    /\ main_i' = main_i + 1
    /\ main_pc' = "loop"
    /\ Blank
    /\ UNCHANGED <<envVars, model_calls, calls, main_use_llm, apt_file, apt_prior, newsVars>>

\* an exception leaves collect_apartment_news: nothing in main catches it
MainAbort ==
    /\ main_pc = "call"
    /\ pc = "raised"
    /\ main_pc' = "aborted"
    /\ Blank
    /\ UNCHANGED <<envVars, model_calls, calls, main_use_llm, main_i, result, apt_file, apt_prior, newsVars>>

\* lines 377-378: open(OUTPUT_PATH, "w") creates or truncates the file
MainOpen ==
    /\ main_pc = "loop"
    /\ main_i > Len(TARGET_APARTMENTS)
    /\ apt_file' = <<[complete |-> FALSE, doc |-> NoResult]>>
    /\ main_pc' = "dump"
    /\ UNCHANGED <<envVars, model_calls, calls, callVars, main_use_llm, main_i, result, apt_prior, newsVars>>

\* line 379: json.dump and the close of the file
MainDump ==
    /\ main_pc = "dump"
    /\ apt_file' = Document(result)
    /\ main_pc' = "done"
    /\ UNCHANGED <<envVars, model_calls, calls, callVars, main_use_llm, main_i, result, apt_prior, newsVars>>

RECURSIVE KeptItems(_, _)
\* the items the loop keeps in keyword mode
KeptItems(apt_name, items) ==
    IF items = <<>> THEN <<>>
    ELSE ScoreOne(apt_name, Head(items), FALSE, FALSE, [kind |-> "call_error"]).keep
         \o KeptItems(apt_name, Tail(items))

\* the document an earlier run left behind: a keyword-mode run whose every
\* search answered PriorItems
PriorItems == <<DOC_A, DOC_D>>
PriorRecord(apt) ==
    ApartmentRecord(apt, ProviderTotal(PriorItems),
                    DelScores(SortByScoreDesc(KeptItems(apt.name, PriorItems))))
PriorResult ==
    [NewResult(FALSE) EXCEPT
        !.last_updated = "earlier",
        !.apartments = [n \in ApartmentNames |->
            PriorRecord(CHOOSE a \in {TARGET_APARTMENTS[k] : k \in 1..Len(TARGET_APARTMENTS)} :
                            a.name = n)]]

\* a run of collect_apartment_news.py, with or without an earlier output file
InitBatch ==
    /\ environ \in Environs
    /\ display = BatchItems
    /\ catalog = BatchPool
    /\ calls = <<>>
    /\ pc = "idle"
    /\ apartment = NoApartment
    /\ use_llm = FALSE
    /\ search_result = EMPTY_RESULT
    /\ i = 1
    /\ filtered_items = <<>>
    /\ verdicts = <<>>
    /\ reasons = <<>>
    /\ apt_data = NoRecord
    /\ main_pc = "start"
    /\ main_use_llm = FALSE
    /\ main_i = 1
    /\ result = NoResult
    /\ apt_file \in {<<>>, Document(PriorResult)}
    /\ apt_prior = apt_file
    /\ news_pc = "idle"
    /\ existing_data = <<>>
    /\ news_data = NoNews
    /\ region_i = 1
    /\ news_file = <<>>
    /\ news_prior = <<>>
    /\ fetched = <<>>
    /\ model_calls = <<>>
    /\ callee = "none"
    /\ PageIdle
    /\ args = <<>>
    /\ returned = <<>>

NextBatch ==
    \/ MainBegin \/ MainCall \/ MainStore \/ MainAbort \/ MainOpen \/ MainDump
    \/ Search1 \/ Search2 \/ ScoreItem \/ SortItems \/ DelItemScores \/ Return

SpecBatch == InitBatch /\ [][NextBatch]_vars

(***************************************************************************)
(* collect_news.main (lines 154-230).                                      *)
(***************************************************************************)
\* mutant of NewsLoad: a file that does not parse ends the run by its
\* exception
NewsLoad_unguarded ==
    /\ news_pc = "start"
    /\ existing_data' = IF news_file # <<>> /\ news_file[1].complete
                        THEN <<news_file[1].doc>> ELSE <<>>
    /\ news_pc' = IF news_file # <<>> /\ ~news_file[1].complete THEN "raised" ELSE "keys"
    /\ UNCHANGED <<envVars, model_calls, calls, callVars, mainVars, news_data, region_i, news_file,
                   news_prior, fetched>>

\* lines 166-173: load the earlier output, if it is there and parses
NewsLoad ==
    /\ news_pc = "start"
    /\ existing_data' = IF news_file # <<>> /\ news_file[1].complete
                        THEN <<news_file[1].doc>> ELSE <<>>
    /\ news_pc' = "keys"
    /\ UNCHANGED <<envVars, model_calls, calls, callVars, mainVars, news_data, region_i, news_file,
                   news_prior, fetched>>

\* mutant of NewsCheckKeys: the new document starts from the regions of the
\* earlier one
NewsCheckKeys_keep ==
    /\ news_pc = "keys"
    /\ IF ~environ.NAVER_CLIENT_ID \/ ~environ.NAVER_CLIENT_SECRET
       THEN /\ news_pc' = "done"
            /\ UNCHANGED news_data
       ELSE /\ news_pc' = "loop"
            /\ news_data' = [last_updated |-> "now",
                             regions |-> IF existing_data # <<>>
                                         THEN existing_data[1].regions ELSE <<>>]
    /\ region_i' = 1
    /\ UNCHANGED <<envVars, model_calls, calls, callVars, mainVars, existing_data, news_file,
                   news_prior, fetched>>

\* lines 176-191: without both keys the run ends here
NewsCheckKeys ==
    /\ news_pc = "keys"
    /\ IF ~environ.NAVER_CLIENT_ID \/ ~environ.NAVER_CLIENT_SECRET
       THEN /\ news_pc' = "done"
            /\ UNCHANGED news_data
       ELSE /\ news_pc' = "loop"
            /\ news_data' = [last_updated |-> "now", regions |-> <<>>]
    /\ region_i' = 1
    /\ UNCHANGED <<envVars, model_calls, calls, callVars, mainVars, existing_data, news_file,
                   news_prior, fetched>>

\* lines 193-222: one region
NewsFetch ==
    /\ news_pc = "loop"
    /\ region_i <= Len(TARGET_REGIONS)
    /\ \E net \in NetOutcomes(display, catalog) :
         LET region == TARGET_REGIONS[region_i]
             stored == FetchRegion(region, net, existing_data)
         IN
         /\ news_data' = IF stored = <<>> THEN news_data
                          ELSE [news_data EXCEPT !.regions = Put(@, region, stored[1])]
         /\ calls' = Append(calls, Call(TARGET_REGIONS[region_i] \o <<" ">> \o APT_WORD, TRUE, net))
         /\ fetched' = Append(fetched, net)
    /\ region_i' = region_i + 1
    /\ UNCHANGED <<envVars, model_calls, callVars, mainVars, news_pc, existing_data, news_file, news_prior>>

\* lines 225-226: open(OUTPUT_PATH, "w") creates or truncates the file
NewsOpen ==
    /\ news_pc = "loop"
    /\ region_i > Len(TARGET_REGIONS)
    /\ news_file' = <<[complete |-> FALSE, doc |-> NoNews]>>
    /\ news_pc' = "dump"
    /\ UNCHANGED <<envVars, model_calls, calls, callVars, mainVars, existing_data, news_data, region_i,
                   news_prior, fetched>>

\* line 227: json.dump and the close of the file
NewsDump ==
    /\ news_pc = "dump"
    /\ news_file' = Document(news_data)
    /\ news_pc' = "done"
    /\ UNCHANGED <<envVars, model_calls, calls, callVars, mainVars, existing_data, news_data, region_i,
                   news_prior, fetched>>

\* the record of a region whose request answered `items`
RegionRecord(region, items) ==
    FetchRegion(region, [kind |-> "ok",
                         body |-> [items |-> items, total |-> ProviderTotal(items)]], <<>>)[1]

\* documents earlier runs left behind: one holding every configured region,
\* one holding the first region only
PriorNewsAll ==
    [last_updated |-> "earlier",
     regions |-> [r \in {TARGET_REGIONS[k] : k \in 1..Len(TARGET_REGIONS)} |->
                    RegionRecord(r, <<DOC_D>>)]]
PriorNewsFirst ==
    [last_updated |-> "earlier",
     regions |-> [r \in {TARGET_REGIONS[1]} |-> RegionRecord(r, <<DOC_D>>)]]

\* a region an earlier version of TARGET_REGIONS held
STALE_REGION == <<"_a","_hyeon","_dong">>

\* the document of a run made when STALE_REGION was still configured
PriorNewsStale ==
    [last_updated |-> "earlier",
     regions |-> [r \in {TARGET_REGIONS[1], STALE_REGION} |-> RegionRecord(r, <<DOC_D>>)]]

\* a run of collect_news.py: no earlier file, an unreadable one, or one of
\* the three earlier documents
InitNews ==
    /\ environ \in {e \in Environs : ~e.OPENAI_API_KEY}
    /\ display = NewsItems
    /\ catalog = NewsPool
    /\ calls = <<>>
    /\ pc = "idle"
    /\ apartment = NoApartment
    /\ use_llm = FALSE
    /\ search_result = EMPTY_RESULT
    /\ i = 1
    /\ filtered_items = <<>>
    /\ verdicts = <<>>
    /\ reasons = <<>>
    /\ apt_data = NoRecord
    /\ main_pc = "idle"
    /\ main_use_llm = FALSE
    /\ main_i = 1
    /\ result = NoResult
    /\ apt_file = <<>>
    /\ apt_prior = <<>>
    /\ news_pc = "start"
    /\ existing_data = <<>>
    /\ news_data = NoNews
    /\ region_i = 1
    /\ news_file \in {<<>>, <<[complete |-> FALSE, doc |-> NoNews]>>,
                      Document(PriorNewsAll), Document(PriorNewsFirst),
                      Document(PriorNewsStale)}
    /\ news_prior = news_file
    /\ fetched = <<>>
    /\ model_calls = <<>>
    /\ callee = "none"
    /\ PageIdle
    /\ args = <<>>
    /\ returned = <<>>

NextNews == NewsLoad \/ NewsCheckKeys \/ NewsFetch \/ NewsOpen \/ NewsDump

SpecNews == InitNews /\ [][NextNews]_vars

(***************************************************************************)
(* Direct calls of the pure functions, on arguments drawn from bounded     *)
(* sets.                                                                   *)
(***************************************************************************)
RECURSIVE ChunkTexts(_, _)
\* the strings made of at most n of the given pieces
ChunkTexts(n, chunks) ==
    IF n = 0 THEN {<<>>}
    ELSE LET shorter == ChunkTexts(n - 1, chunks)
         IN  shorter \cup {t \o c : t \in shorter, c \in chunks}

\* pieces of raw provider text: a tag, the entities, a quote, a letter, a
\* blank, and the tail of an entity
TextChunks ==
    {<<"<","b",">">>, E_LT, E_GT, E_AMP, E_QUOT, DQ, <<"a">>, <<" ">>,
     <<"q","u","o","t",";">>}

\* the raw texts the normalisers are called on
RawTexts == ChunkTexts(MaxChunks, TextChunks)

\* the state of the batch scripts while functions are called directly
ScriptsIdle ==
    /\ environ = [NAVER_CLIENT_ID |-> FALSE, NAVER_CLIENT_SECRET |-> FALSE,
                  OPENAI_API_KEY |-> FALSE]
    /\ display = MaxItems
    /\ catalog = {}
    /\ calls = <<>>
    /\ pc = "idle"
    /\ apartment = NoApartment
    /\ use_llm = FALSE
    /\ search_result = EMPTY_RESULT
    /\ i = 1
    /\ filtered_items = <<>>
    /\ verdicts = <<>>
    /\ reasons = <<>>
    /\ apt_data = NoRecord
    /\ main_pc = "idle"
    /\ main_use_llm = FALSE
    /\ main_i = 1
    /\ result = NoResult
    /\ apt_file = <<>>
    /\ apt_prior = <<>>
    /\ news_pc = "idle"
    /\ existing_data = <<>>
    /\ news_data = NoNews
    /\ region_i = 1
    /\ news_file = <<>>
    /\ news_prior = <<>>
    /\ fetched = <<>>
    /\ model_calls = <<>>

\* a first call of clean_html
CallCleanHtml ==
    /\ callee = "clean_html"
    /\ returned = <<>>
    /\ returned' = <<clean_html(args.text)>>
    /\ UNCHANGED <<pageVars, environ, display, catalog, callee, args, calls, model_calls,
                   callVars, mainVars, newsVars>>

\* clean_html called on what it returned
CallCleanHtmlAgain ==
    /\ callee = "clean_html"
    /\ Len(returned) = 1
    /\ returned' = Append(returned, clean_html(returned[1]))
    /\ UNCHANGED <<pageVars, environ, display, catalog, callee, args, calls, model_calls,
                   callVars, mainVars, newsVars>>

\* a first call of clean_html_tags
CallCleanHtmlTags ==
    /\ callee = "clean_html_tags"
    /\ returned = <<>>
    /\ returned' = <<clean_html_tags(args.text)>>
    /\ UNCHANGED <<pageVars, environ, display, catalog, callee, args, calls, model_calls,
                   callVars, mainVars, newsVars>>

\* clean_html_tags called on what it returned
CallCleanHtmlTagsAgain ==
    /\ callee = "clean_html_tags"
    /\ Len(returned) = 1
    /\ returned' = Append(returned, clean_html_tags(returned[1]))
    /\ UNCHANGED <<pageVars, environ, display, catalog, callee, args, calls, model_calls,
                   callVars, mainVars, newsVars>>

\* pieces of links: domains of both tables, of one table only, of neither,
\* and a domain cut short
LinkChunks ==
    {<<"h","a","n","k","y","u","n","g",".","c","o","m">>,
     <<"c","h","o","s","u","n",".","c","o","m">>,
     <<"e","t","o","d","a","y",".","c","o",".","k","r">>,
     <<"i","c","h","a","n","n","e","l","a",".","c","o","m">>,
     <<"n","a","v","e","r",".","c","o","m","/">>,
     <<"m","k",".","c","o",".","k">>}

\* the links the attribution functions are called on
Links == ChunkTexts(MaxChunks, LinkChunks)

\* a call of extract_source; the second call is on the same link
CallExtractSource ==
    /\ callee = "extract_source"
    /\ Len(returned) < 2
    /\ returned' = Append(returned, extract_source(args.link))
    /\ UNCHANGED <<pageVars, environ, display, catalog, callee, args, calls, model_calls,
                   callVars, mainVars, newsVars>>

\* a call of extract_source_from_link; the second call is on the same link
CallExtractSourceFromLink ==
    /\ callee = "extract_source_from_link"
    /\ Len(returned) < 2
    /\ returned' = Append(returned, extract_source_from_link(args.link))
    /\ UNCHANGED <<pageVars, environ, display, catalog, callee, args, calls, model_calls,
                   callVars, mainVars, newsVars>>

\* the arguments of a direct call of either attribution function
AttributionCalls ==
    {[callee |-> f, args |-> [link |-> l]] :
        f \in {"extract_source", "extract_source_from_link"}, l \in Links}

\* entity names the keyword strategy is called on: two without a brand
\* token's help, one a brand token leaves two characters of, one in capitals
ScoredNames ==
    {<<"_hel","_ri","_o","_si","_ti">>,
     <<"_rae","_mi","_an","_beul","_re","_seu","_ti","_ji">>,
     <<"_ban","_po","_ja","_i">>,
     <<"S","K","_byu">>}

\* pieces of titles: parts of those names and a transaction keyword
TitleChunks ==
    {<<"_hel","_ri","_o">>, <<"_si","_ti">>,
     <<"_beul","_re","_seu","_ti","_ji">>,
     <<"_ban","_po">>, <<"_ja","_i">>,
     <<"_geo","_rae">>,
     <<"s","k","_byu">>}

\* the descriptions the keyword strategy is called on
Descriptions ==
    {<<>>,
     <<"_si","_ti"," ","_geo","_rae">>,
     <<"_mae","_mul">>}

\* a call of judge_relevance_simple
CallJudgeRelevanceSimple ==
    /\ callee = "judge_relevance_simple"
    /\ returned = <<>>
    /\ returned' = <<judge_relevance_simple(args.apartment_name, args.news_title,
                                            args.news_desc)>>
    /\ UNCHANGED <<pageVars, environ, display, catalog, callee, args, calls, model_calls,
                   callVars, mainVars, newsVars>>

\* the arguments of a direct call of the keyword strategy
RelevanceCalls ==
    {[callee |-> "judge_relevance_simple",
      args |-> [apartment_name |-> n, news_title |-> t, news_desc |-> d]] :
        n \in ScoredNames, t \in ChunkTexts(MaxChunks, TitleChunks),
        d \in Descriptions}

\* pieces of titles for the summary: one keyword of each topic group and a
\* word of none
SummaryChunks ==
    {<<"_sin","_go","_ga">>, <<"_sang","_seung">>, <<"_jae","_geon","_chuk">>,
     <<"_bun","_yang">>, <<"_mae","_mul">>, <<"_so","_sik">>}

\* the descriptions the summary is called on
SummaryDescriptions ==
    {<<>>,
     <<"_eok","_won"," ","_geo","_rae","_ryang">>,
     <<"_ip","_ju">>}

\* the items that follow the first one, when there are two
SecondItems ==
    {[title |-> <<"_geup","_deung">>, description |-> <<>>],
     [title |-> <<"_so","_sik">>, description |-> <<>>]}

\* the lists of retained items generate_summary is called on
SummaryItems ==
    LET firsts == {[title |-> t, description |-> d] :
                       t \in ChunkTexts(MaxChunks, SummaryChunks),
                       d \in SummaryDescriptions}
    IN  {<<>>} \cup {<<f>> : f \in firsts}
               \cup {<<f, x>> : f \in firsts, x \in SecondItems}

\* a call of generate_summary
CallGenerateSummary ==
    /\ callee = "generate_summary"
    /\ returned = <<>>
    /\ returned' = <<generate_summary(args.apt_name, args.items)>>
    /\ UNCHANGED <<pageVars, environ, display, catalog, callee, args, calls, model_calls,
                   callVars, mainVars, newsVars>>

\* the arguments of a direct call of generate_summary
SummaryCalls ==
    {[callee |-> "generate_summary",
      args |-> [apt_name |-> ALL_APARTMENTS[1].name, items |-> l]] :
        l \in SummaryItems}

\* pieces of a published-date field: a day name, a date, a date whose day
\* no month has, a time, a zone, an ISO date and a letter
DateChunks ==
    {<<"S","u","n",","," ">>,
     <<"0","7"," ","D","e","c"," ","2","0","2","5">>,
     <<"3","2"," ","D","e","c"," ","2","0","2","5">>,
     <<" ","1","9",":","3","2",":","0","0">>,
     <<" ","+","0","9","0","0">>,
     <<"2","0","2","5","-","1","2","-","0","7">>,
     <<"x">>}

\* the values of a published-date field the date helpers are called on: a
\* string, or the null or the number a JSON body can also hold
PubDates ==
    {Str(t) : t \in ChunkTexts(MaxChunks, DateChunks)} \cup {Null, Num(20251207)}

\* a call of parse_date
CallParseDate ==
    /\ callee = "parse_date"
    /\ returned = <<>>
    /\ returned' = <<parse_date(args.pub_date_str)>>
    /\ UNCHANGED <<pageVars, environ, display, catalog, callee, args, calls, model_calls,
                   callVars, mainVars, newsVars>>

\* a call of format_pub_date
CallFormatPubDate ==
    /\ callee = "format_pub_date"
    /\ returned = <<>>
    /\ returned' = <<format_pub_date(args.pub_date_str)>>
    /\ UNCHANGED <<pageVars, environ, display, catalog, callee, args, calls, model_calls,
                   callVars, mainVars, newsVars>>

\* the arguments of a direct call of either date helper
DateCalls ==
    {[callee |-> f, args |-> [pub_date_str |-> v]] :
        f \in {"parse_date", "format_pub_date"}, v \in PubDates}

\* a call of process_news_item
CallProcessNewsItem ==
    /\ callee = "process_news_item"
    /\ returned = <<>>
    /\ returned' = <<process_news_item(args.item)>>
    /\ UNCHANGED <<pageVars, environ, display, catalog, callee, args, calls, model_calls,
                   callVars, mainVars, newsVars>>

\* the arguments of a direct call of process_news_item: every document the
\* provider can return
ItemCalls ==
    {[callee |-> "process_news_item", args |-> [item |-> d]] : d \in Pool \cup TierPool}

\* the arguments of a direct call of either normaliser
NormaliserCalls ==
    {[callee |-> f, args |-> [text |-> t]] :
        f \in {"clean_html", "clean_html_tags"}, t \in RawTexts}

InitFn ==
    /\ ScriptsIdle
    /\ PageIdle
    /\ \E c \in NormaliserCalls \cup AttributionCalls \cup RelevanceCalls
                \cup SummaryCalls \cup DateCalls \cup ItemCalls :
         /\ callee = c.callee
         /\ args = c.args
    /\ returned = <<>>

NextFn ==
    \/ CallCleanHtml
    \/ CallCleanHtmlAgain
    \/ CallCleanHtmlTags
    \/ CallCleanHtmlTagsAgain
    \/ CallExtractSource
    \/ CallExtractSourceFromLink
    \/ CallJudgeRelevanceSimple
    \/ CallGenerateSummary
    \/ CallParseDate
    \/ CallFormatPubDate
    \/ CallProcessNewsItem

SpecFn == InitFn /\ [][NextFn]_vars

(***************************************************************************)
(* The news page (pages/3): three cached loaders and three tabs, run from   *)
(* top to bottom each time the page is served.  None is <<>> and a loaded   *)
(* document d is <<d>>.                                                     *)
(***************************************************************************)
\* what the job that collects the search trend leaves behind: a list of
\* groups, each a title and its (period, ratio) rows
TrendDoc ==
    << [title |-> "apartment",
        data |-> << [period |-> 1, ratio |-> 40], [period |-> 2, ratio |-> 52] >>],
       [title |-> "jeonse",
        data |-> << [period |-> 1, ratio |-> 30] >>] >>

\* a regions document of a run whose every region failed with nothing earlier
EmptyNews == [last_updated |-> "earlier", regions |-> <<>>]

\* text of a file that json.load does not parse: a file opened for writing
\* and not yet written
Truncated(doc) == <<[complete |-> FALSE, doc |-> doc]>>

\* mutant of load_document: a missing file is not caught
load_document_uncaught(file) ==
    IF file = <<>> THEN [raised |-> TRUE, value |-> <<>>]
    ELSE IF ~file[1].complete THEN [raised |-> TRUE, value |-> <<>>]
    ELSE [raised |-> FALSE, value |-> <<file[1].doc>>]

\* the body the three loaders share, on the file each opens: open() of a
\* missing file raises FileNotFoundError, which is caught and gives None;
\* json.load of text that does not parse raises, which is not caught
load_document(file) ==
    IF file = <<>> THEN [raised |-> FALSE, value |-> <<>>]
    ELSE IF ~file[1].complete THEN [raised |-> TRUE, value |-> <<>>]
    ELSE [raised |-> FALSE, value |-> <<file[1].doc>>]

\* @st.cache_data around a loader: a held value is returned without running
\* the body; otherwise the body runs and what it returns is held
cache_data(entry, file) ==
    LET body == load_document(file)
    IN  IF entry # <<>>
        THEN [raised |-> FALSE, value |-> entry[1], entry |-> entry]
        ELSE IF body.raised
        THEN [raised |-> TRUE, value |-> <<>>, entry |-> entry]
        ELSE [raised |-> FALSE, value |-> body.value, entry |-> <<body.value>>]

load_apartment_news == cache_data(cache.apartment_news, apt_file)
load_region_news == cache_data(cache.region_news, news_file)
load_search_trend == cache_data(cache.search_trend, trend_file)

\* the variables of the scripts, which the page does not touch
offPage == <<environ, display, catalog, fnVars, calls, model_calls, callVars,
             main_pc, main_use_llm, main_i, result, apt_prior,
             news_pc, existing_data, news_data, region_i, news_prior, fetched>>

\* a visit or a widget interaction: the script starts again from the top
PageRun ==
    /\ page_pc \in {"idle", "done", "raised"}
    /\ page_pc' = "tab1"
    /\ rendered' = <<>>
    /\ reads' = {}
    /\ UNCHANGED <<offPage, apt_file, news_file, trend_file, cache, apt_news,
                   region_news, trend_data>>

\* lines 56-123
Tab1 ==
    /\ page_pc = "tab1"
    /\ cache' = [cache EXCEPT !.apartment_news = load_apartment_news.entry]
    /\ IF load_apartment_news.raised
       THEN /\ page_pc' = "raised"
            /\ UNCHANGED <<apt_news, rendered, reads>>
       ELSE /\ apt_news' = load_apartment_news.value
            /\ IF load_apartment_news.value # <<>>
               THEN LET apartments == load_apartment_news.value[1].apartments
                    IN  /\ reads' = reads \cup {"apartment_news"}
                        /\ IF DOMAIN apartments = {}
                           THEN /\ page_pc' = "raised"
                                /\ UNCHANGED rendered
                           ELSE /\ \E selected_apt \in DOMAIN apartments :
                                     rendered' = Append(rendered,
                                        [tab |-> 1, kind |-> "content",
                                         selected |-> selected_apt,
                                         shown |-> Len(apartments[selected_apt].items)])
                                /\ page_pc' = "tab2"
               ELSE /\ rendered' = Append(rendered, [tab |-> 1, kind |-> "warning"])
                    /\ page_pc' = "tab2"
                    /\ UNCHANGED reads
    /\ UNCHANGED <<offPage, apt_file, news_file, trend_file, region_news, trend_data>>

\* lines 125-164
Tab2 ==
    /\ page_pc = "tab2"
    /\ cache' = [cache EXCEPT !.region_news = load_region_news.entry]
    /\ IF load_region_news.raised
       THEN /\ page_pc' = "raised"
            /\ UNCHANGED <<region_news, rendered, reads>>
       ELSE /\ region_news' = load_region_news.value
            /\ IF load_region_news.value # <<>>
               THEN LET regions == load_region_news.value[1].regions
                    IN  /\ reads' = reads \cup {"news_headlines"}
                        /\ IF DOMAIN regions = {}
                           THEN /\ page_pc' = "raised"
                                /\ UNCHANGED rendered
                           ELSE /\ \E selected_region \in DOMAIN regions :
                                     rendered' = Append(rendered,
                                        [tab |-> 2, kind |-> "content",
                                         selected |-> selected_region,
                                         shown |-> Len(regions[selected_region].items)])
                                /\ page_pc' = "tab3"
               ELSE /\ rendered' = Append(rendered, [tab |-> 2, kind |-> "warning"])
                    /\ page_pc' = "tab3"
                    /\ UNCHANGED reads
    /\ UNCHANGED <<offPage, apt_file, news_file, trend_file, apt_news, trend_data>>

\* lines 209-223 for one keyword: the insight shown for it, if any
Insight(group) ==
    LET rows == group.data
        periods == {rows[k].period : k \in 1..Len(rows)}
        last == CHOOSE q \in periods : \A r \in periods : q >= r
        before == CHOOSE q \in periods \ {last} : \A r \in periods \ {last} : q >= r
        ratio(q) == (CHOOSE k \in 1..Len(rows) : rows[k].period = q)
        diff == rows[ratio(last)].ratio - rows[ratio(before)].ratio
    IN  IF Len(rows) < 2 THEN "none"
        ELSE IF diff > 5 THEN "up"
        ELSE IF diff < 0 - 5 THEN "down"
        ELSE "flat"

\* lines 166-228
Tab3 ==
    /\ page_pc = "tab3"
    /\ cache' = [cache EXCEPT !.search_trend = load_search_trend.entry]
    /\ IF load_search_trend.raised
       THEN /\ page_pc' = "raised"
            /\ UNCHANGED <<trend_data, rendered, reads>>
       ELSE /\ trend_data' = load_search_trend.value
            /\ IF load_search_trend.value # <<>>
               THEN LET groups == load_search_trend.value[1]
                        keywords == {groups[k].title : k \in 1..Len(groups)}
                    IN  /\ reads' = reads \cup {"search_trend"}
                        /\ IF groups = <<>>
                           THEN /\ page_pc' = "raised"
                                /\ UNCHANGED rendered
                           ELSE /\ \E selected_keywords \in SUBSET keywords :
                                     rendered' = Append(rendered,
                                        IF selected_keywords # {}
                                        THEN [tab |-> 3, kind |-> "content",
                                              selected |-> selected_keywords,
                                              shown |-> {<<groups[k].title, Insight(groups[k])>> :
                                                  k \in {j \in 1..Len(groups) :
                                                      groups[j].title \in selected_keywords}}]
                                        ELSE [tab |-> 3, kind |-> "select"])
                                /\ page_pc' = "done"
               ELSE /\ rendered' = Append(rendered, [tab |-> 3, kind |-> "warning"])
                    /\ page_pc' = "done"
                    /\ UNCHANGED reads
    /\ UNCHANGED <<offPage, apt_file, news_file, trend_file, apt_news, region_news>>

\* ttl=1800: a held value is dropped half an hour after it was stored
CacheExpire ==
    /\ \E loader \in DOMAIN cache :
         /\ cache[loader] # <<>>
         /\ cache' = [cache EXCEPT ![loader] = <<>>]
    /\ UNCHANGED <<offPage, apt_file, news_file, trend_file, page_pc, apt_news,
                   region_news, trend_data, rendered, reads>>

\* one of the two batch scripts reaches its open(OUTPUT_PATH, "w"): the
\* file exists and is empty
DocumentOpened ==
    /\ \/ apt_file' = Truncated(NoResult) /\ UNCHANGED news_file
       \/ news_file' = Truncated(NoNews) /\ UNCHANGED apt_file
    /\ UNCHANGED <<offPage, pageVars>>

\* the script that opened a file has dumped its document into it
DocumentDumped ==
    /\ \/ /\ apt_file = Truncated(NoResult)
          /\ apt_file' = Document(PriorResult)
          /\ UNCHANGED news_file
       \/ /\ news_file = Truncated(NoNews)
          /\ news_file' \in {Document(PriorNewsAll), Document(EmptyNews)}
          /\ UNCHANGED apt_file
    /\ UNCHANGED <<offPage, pageVars>>

\* the page before its first visit, beside idle scripts; each document is
\* there or not
InitPage ==
    /\ environ = [NAVER_CLIENT_ID |-> FALSE, NAVER_CLIENT_SECRET |-> FALSE,
                  OPENAI_API_KEY |-> FALSE]
    /\ display = MaxItems
    /\ catalog = {}
    /\ calls = <<>>
    /\ pc = "idle"
    /\ apartment = NoApartment
    /\ use_llm = FALSE
    /\ search_result = EMPTY_RESULT
    /\ i = 1
    /\ filtered_items = <<>>
    /\ verdicts = <<>>
    /\ reasons = <<>>
    /\ apt_data = NoRecord
    /\ main_pc = "idle"
    /\ main_use_llm = FALSE
    /\ main_i = 1
    /\ result = NoResult
    /\ apt_file \in {<<>>, Document(PriorResult)}
    /\ apt_prior = <<>>
    /\ news_pc = "idle"
    /\ existing_data = <<>>
    /\ news_data = NoNews
    /\ region_i = 1
    /\ news_file \in {<<>>, Document(PriorNewsAll)}
    /\ news_prior = <<>>
    /\ fetched = <<>>
    /\ model_calls = <<>>
    /\ callee = "none"
    /\ args = <<>>
    /\ returned = <<>>
    /\ page_pc = "idle"
    /\ trend_file \in {<<>>, Document(TrendDoc)}
    /\ cache = NoCache
    /\ apt_news = <<>>
    /\ region_news = <<>>
    /\ trend_data = <<>>
    /\ rendered = <<>>
    /\ reads = {}

NextPage ==
    \/ PageRun
    \/ Tab1
    \/ Tab2
    \/ Tab3
    \/ CacheExpire
    \/ DocumentOpened
    \/ DocumentDumped

SpecPage == InitPage /\ [][NextPage]_vars

(***************************************************************************)
(* Properties.                                                             *)
(***************************************************************************)
NoCredentials == ~environ.NAVER_CLIENT_ID \/ ~environ.NAVER_CLIENT_SECRET
LLMMode == use_llm /\ environ.OPENAI_API_KEY

\* the score the filter compared for the k-th candidate
UsedScore(k) == Get(verdicts[k], Num(0))

\* whether the k-th candidate is among the returned items
Emitted(k) ==
    \E j \in 1..Len(apt_data.items) :
        apt_data.items[j].link = Get(raw_items[k].link, Str(<<>>))

\* the position in raw_items of the j-th returned item
Origin(j) ==
    CHOOSE k \in 1..Len(raw_items) :
        Get(raw_items[k].link, Str(<<>>)) = apt_data.items[j].link

\* C1: in every record collect_apartment_news returns, a candidate is among
\* `items` exactly when the score of its verdict is a number at or above
\* MIN_RELEVANCE_SCORE.
C1_FilterInvariant ==
    pc = "returned" =>
        /\ Len(verdicts) = Len(raw_items)
        /\ \A k \in 1..Len(raw_items) :
             /\ UsedScore(k).t = "num"
             /\ Emitted(k) <=> UsedScore(k).n >= MIN_RELEVANCE_SCORE

\* a model-scored call that kept a candidate scored exactly 0.6 and dropped
\* another
C1_Witness ==
    /\ pc = "returned"
    /\ LLMMode
    /\ Len(raw_items) = 2
    /\ \E k, m \in 1..2 :
         /\ UsedScore(k).n = MIN_RELEVANCE_SCORE /\ Emitted(k)
         /\ UsedScore(m).n < MIN_RELEVANCE_SCORE /\ ~Emitted(m)

\* C2: the returned items are in descending order of verdict score, and
\* items of equal score are in the provider's order.
C2_RankOrder ==
    pc = "returned" =>
        \A a, b \in 1..Len(apt_data.items) :
            a < b =>
                \/ UsedScore(Origin(a)).n > UsedScore(Origin(b)).n
                \/ /\ UsedScore(Origin(a)).n = UsedScore(Origin(b)).n
                   /\ Origin(a) < Origin(b)

\* a call that returned two items of equal score
C2_Witness ==
    /\ pc = "returned"
    /\ Len(apt_data.items) = 2
    /\ UsedScore(Origin(1)).n = UsedScore(Origin(2)).n

\* C3 (as claimed): every verdict score that reaches the filter lies in
\* [0.0, 1.0].
C3_ScoreDomain ==
    \A k \in 1..Len(verdicts) :
        verdicts[k].t = "num" => verdicts[k].n >= 0 /\ verdicts[k].n <= 100

\* C4 (as claimed): every verdict the pipeline uses carries a numeric score,
\* a response without one having been replaced by the keyword verdict.
C4_Failover == \A k \in 1..Len(verdicts) : verdicts[k].t = "num"

\* whether a region's request, or the processing of its items, raised
FetchFailed(net) ==
    \/ net.kind # "ok"
    \/ \E k \in 1..Len(net.body.items) :
         \/ Get(net.body.items[k].title, Str(<<>>)).t # "str"
         \/ Get(net.body.items[k].description, Str(<<>>)).t # "str"
         \/ Get(net.body.items[k].pubDate, Str(<<>>)).t # "str"
         \/ Get(net.body.items[k].originallink,
                Get(net.body.items[k].link, Str(<<>>))).t # "str"

\* whether the earlier output file holds a record for region r
PriorHas(r) ==
    /\ news_prior # <<>>
    /\ news_prior[1].complete
    /\ r \in DOMAIN news_prior[1].doc.regions

\* C5: at the end of a run of collect_news.main that went through its
\* loop, a region whose fetch raised has its record of the earlier file,
\* unchanged, or no record when the earlier file has none; a region whose
\* fetch succeeded has the record built in this run.
C5_CarryForward ==
    (news_pc = "done" /\ ~NoCredentials) =>
        /\ Len(fetched) = Len(TARGET_REGIONS)
        /\ news_file # <<>> /\ news_file[1].complete
        /\ \A k \in 1..Len(TARGET_REGIONS) :
             LET r == TARGET_REGIONS[k]
                 out == news_file[1].doc.regions
             IN  IF FetchFailed(fetched[k])
                 THEN IF PriorHas(r)
                      THEN r \in DOMAIN out /\ out[r] = news_prior[1].doc.regions[r]
                      ELSE r \notin DOMAIN out
                 ELSE /\ r \in DOMAIN out
                      /\ out[r].total_news = fetched[k].body.total
                      /\ Len(out[r].items) = Len(fetched[k].body.items)
                      /\ \A j \in 1..Len(out[r].items) :
                           out[r].items[j].link = fetched[k].body.items[j].link

\* a finished run whose first region failed and kept its earlier record,
\* and whose second region succeeded
C5_Witness ==
    /\ news_pc = "done"
    /\ Len(fetched) = Len(TARGET_REGIONS)
    /\ FetchFailed(fetched[1])
    /\ PriorHas(TARGET_REGIONS[1])
    /\ ~FetchFailed(fetched[2])
    /\ fetched[2].body.items # <<>>

\* C6 (as claimed): after a run of collect_apartment_news.main, an
\* apartment whose searches all came back empty has, in the file written,
\* the record the earlier file had for it.
C6_ApartmentCarryForward ==
    (main_pc = "done" /\ apt_prior # <<>>) =>
        \A a \in ApartmentNames :
            (result.apartments[a].total_news = 0 /\ result.apartments[a].items = <<>>)
                => apt_file[1].doc.apartments[a] = apt_prior[1].doc.apartments[a]

\* C7 (as claimed): no exception raised while one apartment is collected
\* ends the batch.
C7_Isolation == main_pc # "aborted"

\* C8 (as claimed): without both search credentials neither batch script
\* creates, truncates or rewrites its output file.
C8_NoCredentialsNoWrite ==
    NoCredentials => apt_file = apt_prior /\ news_file = news_prior

\* C9: no exception leaves search_naver_news; without both credentials it
\* sends no request and returns the empty result; when the request or the
\* reading of its answer fails it returns the empty result.
C9_DegradeToEmpty ==
    /\ pc = "raised" => i > 1
    /\ NoCredentials => \A k \in 1..Len(calls) : calls[k].kind = "none"
    /\ (pc = "retry" \/ (pc = "score" /\ i = 1)) =>
         /\ calls # <<>>
         /\ NoCredentials => search_result = EMPTY_RESULT
         /\ calls[Len(calls)].kind = "failed" => search_result = EMPTY_RESULT

\* a call with credentials whose two requests both failed
C9_Witness ==
    /\ pc = "score"
    /\ i = 1
    /\ Len(calls) = 2
    /\ calls[1].kind = "failed"
    /\ calls[2].kind = "failed"

RECURSIVE RetainedSum(_)
\* the sum, in hundredths, of the first k verdict scores at or above the
\* threshold
RetainedSum(k) ==
    IF k = 0 THEN 0
    ELSE RetainedSum(k - 1)
         + (IF UsedScore(k).n >= MIN_RELEVANCE_SCORE THEN UsedScore(k).n ELSE 0)

\* the tier the mean of the retained verdict scores gives
TierOfVerdicts ==
    LET n == Len(apt_data.items)
        total == RetainedSum(Len(verdicts))
    IN  IF n > 0 /\ total >= 85 * n THEN "very_high"
        ELSE IF n > 0 /\ total >= 70 * n THEN "high"
        ELSE "medium"

\* C10 (as claimed): the tier of a returned record is the tier of the mean
\* of the verdict scores of its retained documents.
C10_TierFromVerdicts ==
    pc = "returned" => apt_data.relevance_score = TierOfVerdicts

Normalisers == {"clean_html", "clean_html_tags"}

\* whether s holds a markup tag: a "<", one or more characters other than
\* ">", then a ">"
HasTag(s) ==
    \E a, b \in 1..Len(s) :
        /\ a + 1 < b
        /\ s[a] = "<"
        /\ s[b] = ">"
        /\ \A k \in (a + 1)..(b - 1) : s[k] # ">"

\* C11 (as claimed): normalising the output of either normaliser again
\* gives the same string.
C11_Idempotent ==
    (callee \in Normalisers /\ Len(returned) = 2) => returned[2] = returned[1]

\* C12: no string clean_html returns holds a double-quote character.
C12_NoDoubleQuote ==
    callee = "clean_html" =>
        \A k \in 1..Len(returned) :
            \A j \in 1..Len(returned[k]) : returned[k][j] # "\""

\* clean_html returned for a text with a quote decoded from an entity, a
\* letter and a raw quote
C12_Witness ==
    /\ callee = "clean_html"
    /\ args.text = E_QUOT \o <<"a">> \o DQ
    /\ returned # <<>>
    /\ returned[1] = <<"'", "a", "'">>

\* C13 (as claimed): no string either normaliser returns holds a markup
\* tag.
C13_NoMarkup ==
    callee \in Normalisers => \A k \in 1..Len(returned) : ~HasTag(returned[k])

\* the positions of the entries of mapping whose domain is in link
Matching(mapping, link) ==
    {k \in 1..Len(mapping) : Contains(link, mapping[k].domain)}

\* the name the claim gives link under mapping
Attributed(mapping, link) ==
    LET hits == Matching(mapping, link)
    IN  IF hits = {} THEN FALLBACK_SOURCE
        ELSE mapping[CHOOSE k \in hits : \A h \in hits : k <= h].name

\* C14: extract_source and extract_source_from_link return the name of the
\* first entry of their table whose domain is in the link, the fallback
\* name when there is none, and the same name when called again.
C14_SourceAttribution ==
    /\ callee = "extract_source" =>
         \A k \in 1..Len(returned) :
             returned[k] = Attributed(source_mapping, args.link)
    /\ callee = "extract_source_from_link" =>
         \A k \in 1..Len(returned) :
             returned[k] = Attributed(news_source_mapping, args.link)

\* extract_source called twice on a link holding the domains of two entries,
\* the later entry's domain first
C14_Witness ==
    /\ callee = "extract_source"
    /\ Len(returned) = 2
    /\ args.link = <<"c","h","o","s","u","n",".","c","o","m">>
                   \o <<"h","a","n","k","y","u","n","g",".","c","o","m">>
    /\ returned[1] = source_mapping[1].name

\* the entity name, lower-cased, without the three brand tokens
WithoutBrands(name) ==
    Replace(Replace(Replace(Lower(name),
        <<"_rae","_mi","_an">>, <<>>),
        <<"_ja","_i">>, <<>>),
        <<"_hil","_seu","_te","_i","_teu">>, <<>>)

\* the score, in hundredths, the four rules give name on the text
RuleScore(name, text) ==
    IF Contains(Lower(text), Lower(name))
    THEN IF \E k \in 1..Len(price_keywords) : Contains(Lower(text), price_keywords[k])
         THEN 90 ELSE 70
    ELSE IF Len(WithoutBrands(name)) > 2 /\ Contains(Lower(text), WithoutBrands(name))
         THEN 50 ELSE 20

\* C15 (as claimed): judge_relevance_simple returns the verdict the four
\* rules give on the title immediately followed by the description.
C15_HeuristicOnConcatenation ==
    (callee = "judge_relevance_simple" /\ returned # <<>>) =>
        returned[1].score =
            Num(RuleScore(args.apartment_name, args.news_title \o args.news_desc))

\* C15 (amended): judge_relevance_simple returns a verdict for every name,
\* title and description, and its score is the one the four rules give on
\* the title, one blank, then the description.
C15_HeuristicVerdict ==
    (callee = "judge_relevance_simple" /\ returned # <<>>) =>
        /\ returned[1].score =
             Num(RuleScore(args.apartment_name,
                           args.news_title \o <<" ">> \o args.news_desc))
        /\ returned[1].reason.t = "str"

\* the keyword strategy gave 0.2 to a name whose brand-free part, of two
\* characters, is in the title
C15_Witness ==
    /\ callee = "judge_relevance_simple"
    /\ returned # <<>>
    /\ Len(WithoutBrands(args.apartment_name)) = 2
    /\ Contains(args.news_title, WithoutBrands(args.apartment_name))
    /\ returned[1].score = Num(20)

\* whether collect_apartment_news is past its searches
PastSearch == pc \in {"score", "del", "summarize", "returned", "raised"}

\* C16: one call of collect_apartment_news searches first by the name
\* followed by the word for apartment; it searches a second time, by region
\* and name, exactly when the first search returned no items; it never
\* searches a third time; and the items and the total used afterwards are
\* those the last search returned.
C16_SearchRetry ==
    pc # "idle" =>
        /\ Len(calls) <= 2
        /\ calls # <<>> =>
             calls[1].query = apartment.name \o <<" ">> \o APT_WORD
        /\ Len(calls) = 2 =>
             /\ calls[1].value.items = <<>>
             /\ calls[2].query = apartment.region \o <<" ">> \o apartment.name
        /\ pc = "retry" => Len(calls) = 1 /\ calls[1].value.items = <<>>
        /\ PastSearch =>
             /\ calls # <<>>
             /\ Len(calls) = 2 <=> calls[1].value.items = <<>>
             /\ search_result = calls[Len(calls)].value
        /\ pc = "returned" =>
             /\ apt_data.total_news = calls[Len(calls)].value.total
             /\ Len(verdicts) = Len(calls[Len(calls)].value.items)

\* a call whose first search found nothing and whose second found the
\* items it returned
C16_Witness ==
    /\ pc = "returned"
    /\ Len(calls) = 2
    /\ calls[2].value.items # <<>>
    /\ apt_data.items # <<>>

\* the five topic groups in priority order, each with its keywords
TopicGroups ==
    <<[topic |-> T_RECORD,
       kws |-> {<<"_sin","_go","_ga">>, <<"_choe","_go","_ga">>, <<"_eok","_won">>}],
      [topic |-> T_RISE,
       kws |-> {<<"_sang","_seung">>, <<"_geup","_deung">>, <<"_o","_reu">>}],
      [topic |-> T_REBUILD,
       kws |-> {<<"_jae","_geon","_chuk">>, <<"_jae","_gae","_bal">>, <<"_jeong","_bi">>}],
      [topic |-> T_PRESALE,
       kws |-> {<<"_bun","_yang">>, <<"_cheong","_yak">>, <<"_ip","_ju">>}],
      [topic |-> T_TRADE,
       kws |-> {<<"_geo","_rae","_ryang">>, <<"_mae","_mul">>}]>>

\* whether a keyword of group g is in the title or the description of one
\* of the items
GroupMatches(g, items) ==
    \E k \in 1..Len(items) : \E kw \in g.kws :
        Contains(items[k].title, kw) \/ Contains(items[k].description, kw)

RECURSIVE MatchedTopics(_, _)
\* the topics of the groups from position k on that match, in order
MatchedTopics(items, k) ==
    IF k > Len(TopicGroups) THEN <<>>
    ELSE (IF GroupMatches(TopicGroups[k], items) THEN <<TopicGroups[k].topic>> ELSE <<>>)
         \o MatchedTopics(items, k + 1)

\* the first three elements of a sequence, or all when it has fewer
FirstThree(q) == SubSeq(q, 1, IF Len(q) < 3 THEN Len(q) ELSE 3)

\* C17 (as claimed): generate_summary names the first three matched topics
\* in priority order, and returns the one generic message both when no
\* topic matches and when there are no items.
C17_SummaryOneGenericMessage ==
    (callee = "generate_summary" /\ returned # <<>>) =>
        LET matched == MatchedTopics(args.items, 1)
        IN  IF args.items = <<>> \/ matched = <<>>
            THEN returned[1].kind = "generic"
            ELSE returned[1].kind = "topics" /\ returned[1].topics = FirstThree(matched)

\* C17 (amended): generate_summary names the first three matched topics in
\* priority order; with items and no matched topic it returns the generic
\* latest-news message, and with no items the separate not-enough-news
\* message; each message names the apartment.
C17_Summary ==
    (callee = "generate_summary" /\ returned # <<>>) =>
        LET matched == MatchedTopics(args.items, 1)
        IN  /\ returned[1].name = args.apt_name
            /\ IF args.items = <<>> THEN returned[1].kind = "insufficient"
               ELSE IF matched = <<>> THEN returned[1].kind = "generic"
               ELSE /\ returned[1].kind = "topics"
                    /\ returned[1].topics = FirstThree(matched)

\* a summary of items matching four topic groups, the fourth not named
C17_Witness ==
    /\ callee = "generate_summary"
    /\ returned # <<>>
    /\ Len(MatchedTopics(args.items, 1)) = 4
    /\ returned[1].topics = <<T_RECORD, T_RISE, T_REBUILD>>

\* C18 (as claimed): at every point of a run each output path holds the
\* complete document of the earlier run, or a complete new document.
C18_AtomicPersistence ==
    /\ apt_file = apt_prior \/ (apt_file # <<>> /\ apt_file[1].complete)
    /\ news_file = news_prior \/ (news_file # <<>> /\ news_file[1].complete)

\* whether the earlier region file is missing or does not parse
NoPriorNews == news_prior = <<>> \/ ~news_prior[1].complete

\* C19: when the earlier output file of collect_news.main is missing or
\* does not parse, the run goes on with no earlier data: no exception ends
\* it, and the document it writes has a record for exactly the regions
\* whose fetch succeeded.
C19_PriorLoading ==
    NoPriorNews =>
        /\ news_pc \in {"idle", "start", "keys", "loop", "dump", "done"}
        /\ news_pc # "start" => existing_data = <<>>
        /\ (news_pc = "done" /\ ~NoCredentials) =>
             /\ news_file # <<>> /\ news_file[1].complete
             /\ Len(fetched) = Len(TARGET_REGIONS)
             /\ DOMAIN news_file[1].doc.regions =
                    {TARGET_REGIONS[k] : k \in {j \in 1..Len(TARGET_REGIONS) :
                                                   ~FetchFailed(fetched[j])}}

\* a finished run that started from a file that does not parse, whose first
\* region failed and is left out and whose second region is recorded
C19_Witness ==
    /\ news_pc = "done"
    /\ news_prior # <<>>
    /\ ~news_prior[1].complete
    /\ Len(fetched) = Len(TARGET_REGIONS)
    /\ FetchFailed(fetched[1])
    /\ ~FetchFailed(fetched[2])
    /\ news_file[1].complete
    /\ TARGET_REGIONS[1] \notin DOMAIN news_file[1].doc.regions
    /\ TARGET_REGIONS[2] \in DOMAIN news_file[1].doc.regions

\* whether collect_apartment_news.main is past choosing its mode
ModeChosen == main_pc \notin {"idle", "start"}

\* C20: in a run of collect_apartment_news.main the mode is chosen once,
\* from OPENAI_API_KEY, and the metadata reports it; without the key the
\* metadata says keyword-based, the model endpoint is never called and
\* every verdict is the one judge_relevance_simple gives.
C20_ScorerSelection ==
    ModeChosen =>
        /\ main_use_llm = environ.OPENAI_API_KEY
        /\ result.metadata.relevance_filter =
               (IF main_use_llm THEN "LLM-based" ELSE "keyword-based")
        /\ pc # "idle" => use_llm = main_use_llm
        /\ ~environ.OPENAI_API_KEY =>
             /\ result.metadata.relevance_filter = "keyword-based"
             /\ \A k \in 1..Len(model_calls) : ~model_calls[k]
             /\ pc # "idle" =>
                  \A k \in 1..Len(verdicts) :
                      verdicts[k] =
                          judge_relevance_simple(apartment.name,
                              clean_html(Get(raw_items[k].title, Str(<<>>)).s),
                              clean_html(Get(raw_items[k].description, Str(<<>>)).s)).score

\* a finished run without the model credential that scored a document
C20_Witness ==
    /\ main_pc = "done"
    /\ ~environ.OPENAI_API_KEY
    /\ model_calls # <<>>
    /\ \E a \in DOMAIN result.apartments : result.apartments[a].items # <<>>

\* C22: for every value of a published-date field, parse_date and
\* format_pub_date return a value without raising.  Violated: a null (or
\* numeric) field makes len() raise inside the except handler.
C22_DateNeverRaises ==
    (callee \in {"parse_date", "format_pub_date"} /\ returned # <<>>)
        => ~returned[1].raised

\* C21: at the end of a run of collect_news.main, every region whose fetch
\* succeeded has as many stored items as the provider returned, the j-th
\* stored item being the normalised j-th returned item (cleaned title and
\* description, the link, the formatted date, the attributed source), and
\* its total_news is the total the provider reported.
C21_RegionUnfiltered ==
    (news_pc = "done" /\ ~NoCredentials) =>
        \A k \in 1..Len(TARGET_REGIONS) :
            ~FetchFailed(fetched[k]) =>
                LET raw == fetched[k].body.items
                    out == news_file[1].doc.regions[TARGET_REGIONS[k]]
                IN  /\ out.total_news = fetched[k].body.total
                    /\ Len(out.items) = Len(raw)
                    /\ \A j \in 1..Len(raw) :
                         /\ out.items[j].title
                              = clean_html_tags(Get(raw[j].title, Str(<<>>)).s)
                         /\ out.items[j].description
                              = clean_html_tags(Get(raw[j].description, Str(<<>>)).s)
                         /\ out.items[j].link = Get(raw[j].link, Str(<<>>))
                         /\ out.items[j].pubDate
                              = format_pub_date(Get(raw[j].pubDate, Str(<<>>))).value
                         /\ out.items[j].source
                              = extract_source_from_link(
                                  Get(raw[j].originallink,
                                      Get(raw[j].link, Str(<<>>))).s)

\* a finished run one of whose regions was answered two items, both stored
C21_Witness ==
    /\ news_pc = "done"
    /\ \E k \in 1..Len(fetched) :
         /\ ~FetchFailed(fetched[k])
         /\ Len(fetched[k].body.items) = 2
         /\ Len(news_file[1].doc.regions[TARGET_REGIONS[k]].items) = 2

\* whether the run of the page has gone past the tab numbered `tab`
TabDone(tab) ==
    \/ page_pc = "done"
    \/ page_pc = "tab2" /\ tab < 2
    \/ page_pc = "tab3" /\ tab < 3
    \/ page_pc = "raised" /\ Len(rendered) >= tab

\* whether the run of the page raised inside the tab numbered `tab`
RaisedIn(tab) == page_pc = "raised" /\ Len(rendered) = tab - 1

\* whether the tab numbered `tab` has shown the no-data warning and has
\* read no field of the document named doc
WarningOnly(tab, doc) ==
    /\ rendered[tab] = [tab |-> tab, kind |-> "warning"]
    /\ doc \notin reads

\* C23: a tab that runs while its document is absent gets None from its
\* loader, shows the no-data warning, does not raise and reads no field of
\* the document.  No script removes a document, so a document that is
\* absent after a tab has run was absent when it ran.
C23_NoDataState ==
    /\ apt_file = <<>> =>
         /\ ~RaisedIn(1)
         /\ TabDone(1) => (apt_news = <<>> /\ WarningOnly(1, "apartment_news"))
    /\ news_file = <<>> =>
         /\ ~RaisedIn(2)
         /\ TabDone(2) => (region_news = <<>> /\ WarningOnly(2, "news_headlines"))
    /\ trend_file = <<>> =>
         /\ ~RaisedIn(3)
         /\ TabDone(3) => (trend_data = <<>> /\ WarningOnly(3, "search_trend"))

\* a run of the page that has shown the warning of the first tab and the
\* content of the second: one document absent, the other present
C23_Witness ==
    /\ page_pc = "tab3"
    /\ apt_file = <<>>
    /\ rendered[1].kind = "warning"
    /\ rendered[2].kind = "content"

RECURSIVE Invocations(_)
\* the entities the pipeline was invoked for, oldest first: every
\* invocation makes its first search, by "{name} <apartment>", exactly once
Invocations(history) ==
    IF history = <<>> THEN <<>>
    ELSE LET made == {k \in 1..Len(TARGET_APARTMENTS) :
                         Query1(TARGET_APARTMENTS[k]) = Head(history).query}
         IN  (IF made = {} THEN <<>> ELSE <<CHOOSE k \in made : TRUE>>)
             \o Invocations(Tail(history))

\* whether the pipeline was invoked for the first n configured entities, once
\* each and in their order, and for no other
InvokedInOrder(n) ==
    /\ Len(Invocations(calls)) = n
    /\ \A k \in 1..n : Invocations(calls)[k] = k

\* the names of the first n configured entities
FirstNames(n) == {TARGET_APARTMENTS[k].name : k \in 1..n}

\* C24: the batch runner invokes the pipeline for one entity at a time in
\* the order of the configured list: the pipeline runs only inside the
\* runner's call, for the entity the loop is at, and only once the records
\* of all entities before it, and of no other, have been stored; a run that
\* completes has invoked the pipeline exactly once per entity, in order.
\* The region runner likewise fetches region k as its k-th request.
C24_BatchOrder ==
    /\ pc # "idle" => main_pc = "call"
    /\ main_pc = "call" => apartment = TARGET_APARTMENTS[main_i]
    /\ main_pc \in {"loop", "call"} =>
         /\ DOMAIN result.apartments = FirstNames(main_i - 1)
         /\ InvokedInOrder(IF main_pc = "call" /\ pc # "search"
                           THEN main_i ELSE main_i - 1)
    /\ main_pc = "done" =>
         /\ InvokedInOrder(Len(TARGET_APARTMENTS))
         /\ DOMAIN apt_file[1].doc.apartments = FirstNames(Len(TARGET_APARTMENTS))
    /\ news_pc \in {"loop", "dump", "done"} =>
         /\ Len(calls) = region_i - 1
         /\ \A k \in 1..Len(calls) :
              calls[k].query = TARGET_REGIONS[k] \o <<" ">> \o APT_WORD

\* a completed run of the batch that invoked the pipeline for every
\* configured entity
C24_Witness ==
    /\ main_pc = "done"
    /\ Len(Invocations(calls)) = Len(TARGET_APARTMENTS)
    /\ Len(TARGET_APARTMENTS) > 1

\* whether every verdict returned so far has a numeric score below the
\* threshold
NonePasses ==
    \A k \in 1..Len(verdicts) :
        UsedScore(k).t = "num" /\ UsedScore(k).n < MIN_RELEVANCE_SCORE

\* C25: a call in which no candidate passes the threshold, the search
\* having returned items or none, does not raise and returns a record with
\* no items, news_count 0, tier "medium" and the summary that generate_summary
\* gives for an empty list.
C25_EmptyRetained ==
    /\ pc = "raised" => ~(Len(verdicts) = i - 1 /\ NonePasses)
    /\ (pc = "returned" /\ NonePasses) =>
         /\ apt_data.items = <<>>
         /\ apt_data.news_count = 0
         /\ apt_data.relevance_score = "medium"
         /\ apt_data.summary = [kind |-> "insufficient", name |-> apartment.name,
                                topics |-> <<>>]
         /\ apt_data.total_news = total_news

\* a call that returned after scoring two candidates, neither of which
\* passed
C25_Witness ==
    /\ pc = "returned"
    /\ Len(verdicts) = 2
    /\ NonePasses
    /\ apt_data.news_count = 0

\* C26: in keyword mode every retained document names the entity (verdict
\* 0.7 or 0.9), so a record with retained documents has tier "high" or
\* "very_high" and tier "medium" goes with an empty retained set only.
\* Violated: the mean of three verdicts of 0.7 is computed below 0.7.
C26_HeuristicTier ==
    (pc = "returned" /\ ~LLMMode) =>
        /\ apt_data.items # <<>> => apt_data.relevance_score \in {"high", "very_high"}
        /\ apt_data.relevance_score = "medium" => apt_data.items = <<>>

\* the value the last search call of this invocation returned
LastSearch == calls[Len(calls)].value

\* C27: in every record collect_apartment_news returns, news_count is the
\* length of items; every item is the cleaned form of a candidate the last
\* search call returned, no candidate giving two items; and total_news is
\* the total that last call reported, whatever the filter dropped.
C27_CountInvariants ==
    pc = "returned" =>
        /\ apt_data.news_count = Len(apt_data.items)
        /\ \A j \in 1..Len(apt_data.items) :
             \E k \in 1..Len(LastSearch.items) :
                 LET raw == LastSearch.items[k]
                 IN  /\ apt_data.items[j].link = Get(raw.link, Str(<<>>))
                     /\ apt_data.items[j].title = clean_html(Get(raw.title, Str(<<>>)).s)
                     /\ apt_data.items[j].description
                          = clean_html(Get(raw.description, Str(<<>>)).s)
        /\ \A j, h \in 1..Len(apt_data.items) :
             j # h => apt_data.items[j].link # apt_data.items[h].link
        /\ apt_data.total_news = LastSearch.total

\* a call whose second search returned two candidates, of which one was
\* retained, the provider's total being larger than both counts
C27_Witness ==
    /\ pc = "returned"
    /\ Len(calls) = 2
    /\ Len(LastSearch.items) = 2
    /\ apt_data.news_count = 1
    /\ apt_data.total_news > 2

\* whether the earlier regions document holds a region that is not
\* configured any more
PriorIsStale ==
    /\ news_prior # <<>>
    /\ news_prior[1].complete
    /\ STALE_REGION \in DOMAIN news_prior[1].doc.regions

\* C28: the document a completed run of collect_apartment_news.main writes
\* has exactly the names in TARGET_APARTMENTS as the keys of `apartments`;
\* the document a completed run of collect_news.main builds and writes has
\* only regions of TARGET_REGIONS as the keys of `regions`, whatever the
\* earlier document held.
C28_OutputKeys ==
    /\ main_pc = "done" =>
         DOMAIN apt_file[1].doc.apartments
            = {TARGET_APARTMENTS[k].name : k \in 1..Len(TARGET_APARTMENTS)}
    /\ news_pc \in {"loop", "dump", "done"} =>
         DOMAIN news_data.regions \subseteq {TARGET_REGIONS[k] : k \in 1..Len(TARGET_REGIONS)}
    /\ (news_pc = "done" /\ ~NoCredentials) =>
         /\ news_file = Document(news_data)
         /\ STALE_REGION \notin DOMAIN news_file[1].doc.regions

\* a completed run that found a region no longer configured in the earlier
\* document, carried a failed region's earlier record forward and wrote its
\* document
C28_Witness ==
    /\ news_pc = "done"
    /\ ~NoCredentials
    /\ PriorIsStale
    /\ FetchFailed(fetched[1])
    /\ TARGET_REGIONS[1] \in DOMAIN news_file[1].doc.regions

\* whether `item` was appended for a candidate whose verdict passed the
\* threshold and gave the reason the item carries
FromPassingVerdict(item) ==
    \E k \in 1..Len(verdicts) :
        /\ Get(raw_items[k].link, Str(<<>>)) = item.link
        /\ UsedScore(k).t = "num"
        /\ UsedScore(k).n >= MIN_RELEVANCE_SCORE
        /\ reasons[k].t = "str"
        /\ item.relevance = reasons[k]

\* C29: every item of a record returned by collect_apartment_news carries
\* the reason of the verdict that passed it and no relevance_score field;
\* the field is still on every retained item while the loop runs and when
\* the sort has ordered the list by it, and is removed only after that.
C29_ScoreDropped ==
    /\ pc \in {"score", "del"} =>
         \A k \in 1..Len(filtered_items) :
             "relevance_score" \in DOMAIN filtered_items[k]
    /\ pc = "del" =>
         \A k \in 1..(Len(filtered_items) - 1) :
             filtered_items[k].relevance_score.n >= filtered_items[k + 1].relevance_score.n
    /\ pc \in {"summarize", "returned"} =>
         \A k \in 1..Len(filtered_items) :
             /\ "relevance_score" \notin DOMAIN filtered_items[k]
             /\ FromPassingVerdict(filtered_items[k])
    /\ pc = "returned" =>
         /\ apt_data.items = filtered_items
         /\ apt_data.news_count
              = Cardinality({k \in 1..Len(verdicts) :
                                UsedScore(k).n >= MIN_RELEVANCE_SCORE})

\* a returned record of two items whose reasons differ and which the sort
\* put in the other order than the search gave them
C29_Witness ==
    /\ pc = "returned"
    /\ Len(apt_data.items) = 2
    /\ apt_data.items[1].relevance # apt_data.items[2].relevance
    /\ apt_data.items[1].link = Get(raw_items[2].link, Str(<<>>))
    /\ UsedScore(1).n < UsedScore(2).n

\* the item the apartment script appends for `item` under the keyword
\* strategy, if it appends one
AppendedFor(apt, item) == ScoreOne(apt.name, item, FALSE, FALSE, [kind |-> "call_error"])

\* C30: on every string, clean_html and clean_html_tags return the same
\* text and parse_date and format_pub_date return the same date, neither
\* raising; an item the apartment script retains has the title, link,
\* description and pubDate that process_news_item gives the same raw item.
C30_HelpersAgree ==
    /\ (callee = "clean_html" /\ returned # <<>>) =>
         returned[1] = clean_html_tags(args.text)
    /\ (callee = "clean_html_tags" /\ returned # <<>>) =>
         returned[1] = clean_html(args.text)
    /\ (callee = "parse_date" /\ returned # <<>> /\ args.pub_date_str.t = "str") =>
         /\ ~returned[1].raised
         /\ returned[1] = format_pub_date(args.pub_date_str)
    /\ (callee = "format_pub_date" /\ returned # <<>> /\ args.pub_date_str.t = "str") =>
         /\ ~returned[1].raised
         /\ returned[1] = parse_date(args.pub_date_str)
    /\ (callee = "process_news_item" /\ returned # <<>>) =>
         \A apt \in SampleApartments :
             AppendedFor(apt, args.item).keep # <<>> =>
                 /\ ~returned[1].raised
                 /\ \A f \in {"title", "link", "description", "pubDate"} :
                        returned[1].item[1][f] = AppendedFor(apt, args.item).keep[1][f]

\* process_news_item called on a document with a tag in its title and an
\* RFC 2822 date, which the apartment script retains for the first apartment
C30_Witness ==
    /\ callee = "process_news_item"
    /\ returned # <<>>
    /\ args.item = DOC_A
    /\ AppendedFor(ALL_APARTMENTS[1], DOC_A).keep # <<>>
    /\ returned[1].item[1].title # DOC_A.title.s
    /\ returned[1].item[1].pubDate = <<"2","0","2","5","-","1","2","-","0","7">>

====
